---- MODULE Spec2Model ----
(***************************************************************************)
(* Model of the Dhan intraday risk manager (src/dhan_risk_manager.py):     *)
(* the DhanRiskManager engine, its executor methods and the main() driver. *)
(*                                                                         *)
(* Money is held in hundredths of a rupee (R(x) is x rupees).  Every PNL   *)
(* the model produces is a whole number of rupees and the trail percent is *)
(* a whole number, so pnl * (1 - trail_percent/100) is exact.              *)
(***************************************************************************)
EXTENDS Integers, Sequences, FiniteSets, TLC

VARIABLES
    cfg,                    \* CONFIG, fixed after start-up
    risk_manager,           \* TRUE once the DhanRiskManager instance exists
    daily_stoploss,         \* self.daily_stoploss
    daily_target,           \* self.daily_target
    kill_switch_triggered,  \* self.kill_switch_triggered
    op,                     \* the handler that ran last
    outcome,                \* what check_and_manage_risk returned since main() last had control
    trace,                  \* method calls, broker requests and notifier calls of the last handler
    pnl,                    \* total PNL of the last snapshot fetched by that handler
    position_details,       \* position_details of that snapshot
    sl_before,              \* daily_stoploss on entry to the last handler
    kst_before,             \* kill_switch_triggered on entry to the last handler
    sent,                   \* what each notifier call of the last handler returned, in order
    returned_breach,        \* the first breach status an earlier check returned, if any
    last_failed,            \* the previous check returned KILL_SWITCH_FAILED
    pc,                     \* position of main()
    now,                    \* the wall clock, as read by is_market_hours
    jobs,                   \* schedule.jobs
    batch,                  \* jobs of the current run_pending() still to run
    method,                 \* an executor method applied on its own: its input and its result
    scheduler               \* the schedule library's clock, each job's next run, the job being run

vars == <<cfg, risk_manager, daily_stoploss, daily_target, kill_switch_triggered,
          op, outcome, trace, pnl, position_details, sl_before, kst_before, sent,
          returned_breach, last_failed, pc, now, jobs, batch, method, scheduler>>

engineVars == <<daily_stoploss, daily_target, kill_switch_triggered>>
callVars   == <<op, outcome, trace, pnl, position_details, sl_before, kst_before, sent>>
historyVars == <<returned_breach, last_failed>>
driverVars == <<pc, now, jobs, batch>>

----------------------------------------------------------------------------
(* Bounds of the model *)

MaxPositions == 2      \* positions in one broker snapshot
MaxOrders    == 1      \* orders in one broker order list
MaxListed    == 2      \* orders in the list given to cancel_all_pending_orders on its own
MaxClock     == 7      \* seconds of the scheduler's clock after which no new pass starts

----------------------------------------------------------------------------
(* Values *)

R(x) == x * 100

NoAvg == -1            \* no average-price key resolves to a number

Abs(x) == IF x < 0 THEN -x ELSE x

\* A percentage as float() reads it from the environment (line 71): m * 10^-e.
Percent(m, e) == [m |-> m, e |-> e]

Whole(n) == Percent(n, 0)

RECURSIVE Pow10(_)
Pow10(e) == IF e = 0 THEN 1 ELSE 10 * Pow10(e - 1)

\* floor(m / 10^e)
RECURSIVE Shifted(_, _)
Shifted(m, e) == IF e = 0 THEN m ELSE Shifted(m \div 10, e - 1)

\* t > 0 and t < 100
IsPositive(t)   == t.m > 0
BelowHundred(t) == Shifted(t.m, t.e) < 100

\* 1 - t/100 in binary64 arithmetic is 1.0 itself once t/100 is at most 2^-54
\* (5.55e-17): so for every t from 0 up to 5e-15.
RoundsToOne(t) == t.e >= 15 /\ t.m <= 5

Symbols == <<"S1", "S2", "S3", "S4">>

\* Rows the broker can return for one position (rupees are converted by R).
PositionKinds ==
   << [realizedProfit |-> R(500),  unrealizedProfit |-> 0,        netQty |-> 0,   avg |-> NoAvg],
      [realizedProfit |-> 0,       unrealizedProfit |-> R(1200),  netQty |-> 10,  avg |-> R(2000)],
      [realizedProfit |-> 0,       unrealizedProfit |-> R(-300),  netQty |-> -10, avg |-> R(1000)],
      [realizedProfit |-> R(-1100), unrealizedProfit |-> 0,       netQty |-> 5,   avg |-> NoAvg],
      [realizedProfit |-> 0,       unrealizedProfit |-> R(2500),  netQty |-> 10,  avg |-> R(100000)] >>

RECURSIVE SeqsUpTo(_, _)
SeqsUpTo(S, n) ==
    IF n = 0 THEN { <<>> }
    ELSE LET shorter == SeqsUpTo(S, n - 1)
         IN  shorter \cup { Append(s, x) : s \in { t \in shorter : Len(t) = n - 1 }, x \in S }

\* The JSON body of GET /positions: the i-th row trades Symbols[i].
Row(kind, i) ==
    [tradingSymbol |-> Symbols[i], realizedProfit |-> kind.realizedProfit,
     unrealizedProfit |-> kind.unrealizedProfit, netQty |-> kind.netQty, avg |-> kind.avg]

\* Rows are told apart by their symbol only, so a body lists its rows in the
\* order of PositionKinds: any other order is the same body with the symbols renamed.
PositionsData ==
    { [i \in 1..Len(ks) |-> Row(PositionKinds[ks[i]], i)] :
        ks \in { t \in SeqsUpTo(DOMAIN PositionKinds, MaxPositions) :
                   \A i \in 1..(Len(t) - 1) : t[i] <= t[i + 1] } }

\* Responses to GET /positions; "timeout" and "network" are raised exceptions.
PositionsResponses ==
    { [status |-> s, data |-> <<>>] : s \in {"401", "500", "timeout", "network"} }
    \cup { [status |-> "200", data |-> d] : d \in PositionsData }

\* Responses to POST /orders and DELETE /orders/{id}.
OrderResults == {"200", "timeout"}


\* Bodies of GET /orders.
OrderStatuses == {"PENDING", "TRANSIT", "TRADED"}

OrderIds == <<"O1", "O2", "O3">>

OrderKinds == { [orderStatus |-> "PENDING", cancel |-> "timeout"],
                [orderStatus |-> "TRANSIT", cancel |-> "200"],
                [orderStatus |-> "TRADED", cancel |-> "200"] }

OrdersData ==
    { [i \in 1..Len(ks) |-> [orderId |-> OrderIds[i], orderStatus |-> ks[i].orderStatus,
                             cancel |-> ks[i].cancel]] : ks \in SeqsUpTo(OrderKinds, MaxOrders) }

OrdersResponses ==
    { [status |-> s, orders |-> <<>>] : s \in {"500", "timeout"} }
    \cup { [status |-> "200", orders |-> d] : d \in OrdersData }

\* killSwitchStatus strings of the broker, and how each is spelled.
Spelling ==
    [ ACTIVATED |-> <<"A", "C", "T", "I", "V", "A", "T", "E", "D">>,
      activated |-> <<"a", "c", "t", "i", "v", "a", "t", "e", "d">>,
      ACTIVATE  |-> <<"A", "C", "T", "I", "V", "A", "T", "E">> ]

KillSwitchStatuses == DOMAIN Spelling

\* Responses to POST /killSwitch.
KillSwitchResponses ==
    { [status |-> "200", killSwitchStatus |-> s] : s \in KillSwitchStatuses }
    \cup { [status |-> s, killSwitchStatus |-> ""] : s \in {"500", "timeout"} }

----------------------------------------------------------------------------
(* Strings: str.lower and the substring test of trigger_kill_switch *)

LowerCase ==
    [ A |-> "a", C |-> "c", D |-> "d", E |-> "e", I |-> "i", T |-> "t", V |-> "v" ]

LowerChar(ch) == IF ch \in DOMAIN LowerCase THEN LowerCase[ch] ELSE ch

Lower(chars) == [i \in 1..Len(chars) |-> LowerChar(chars[i])]

\* needle in haystack
Contains(haystack, needle) ==
    \E k \in 0..(Len(haystack) - Len(needle)) :
        \A i \in 1..Len(needle) : haystack[k + i] = needle[i]

activated == <<"a", "c", "t", "i", "v", "a", "t", "e", "d">>

----------------------------------------------------------------------------
(* DhanRiskManager: snapshot and executor methods.  Each returns its       *)
(* Python result together with the broker requests it made (reqs).         *)

RECURSIVE SumTotals(_)
SumTotals(details) ==
    IF details = <<>> THEN 0
    ELSE Head(details).total + SumTotals(Tail(details))

Detail(row) ==
    [symbol |-> row.tradingSymbol, realized |-> row.realizedProfit,
     unrealized |-> row.unrealizedProfit,
     total |-> row.realizedProfit + row.unrealizedProfit,
     position_data |-> row]

\* get_positions_pnl: (total_pnl, position_details), or (None, None) as ok = FALSE
get_positions_pnl(resp) ==
    LET details == [i \in 1..Len(resp.data) |-> Detail(resp.data[i])]
    IN  IF resp.status = "200"
        THEN [ok |-> TRUE, pnl |-> SumTotals(details), details |-> details,
              reqs |-> << <<"GET", "/positions">>, <<"return", "get_positions_pnl", TRUE>> >>]
        ELSE [ok |-> FALSE, pnl |-> 0, details |-> <<>>,
              reqs |-> << <<"GET", "/positions">>, <<"return", "get_positions_pnl", FALSE>> >>]

\* line 482 with the side of the position instead of the opposite one
transaction_type_SameSide(net_qty) == IF net_qty > 0 THEN "BUY" ELSE "SELL"

transaction_type(net_qty) == IF net_qty > 0 THEN "SELL" ELSE "BUY"

\* lines 485-498 and 434-447: the order payload
OrderRequest(pos) ==
    <<"POST", "/orders", pos.symbol, transaction_type(pos.position_data.netQty),
      Abs(pos.position_data.netQty), "MARKET">>

\* square_off_position: res is the broker's answer to the order, if one is placed
square_off_position(pos, res) ==
    IF pos.position_data.netQty = 0
    THEN [ok |-> TRUE, reqs |-> <<>>]
    ELSE [ok |-> (res = "200"), reqs |-> << OrderRequest(pos) >>]

\* the loop of lines 420-464 leaving at the first order that fails
RECURSIVE SquareOffFrom_StopAtFailure(_, _, _)
SquareOffFrom_StopAtFailure(details, results, i) ==
    IF i > Len(details) THEN [failed_count |-> 0, reqs |-> <<>>]
    ELSE IF details[i].position_data.netQty = 0
    THEN SquareOffFrom_StopAtFailure(details, results, i + 1)
    ELSE IF results[i] # "200"
    THEN [failed_count |-> 1, reqs |-> << OrderRequest(details[i]) >>]
    ELSE LET rest == SquareOffFrom_StopAtFailure(details, results, i + 1)
         IN  [failed_count |-> rest.failed_count,
              reqs |-> << OrderRequest(details[i]) >> \o rest.reqs]

\* the loop of square_off_all_positions from position i on; results[i] answers
\* the order for position i
RECURSIVE SquareOffFrom(_, _, _)
SquareOffFrom(details, results, i) ==
    IF i > Len(details) THEN [failed_count |-> 0, reqs |-> <<>>]
    ELSE LET rest == SquareOffFrom(details, results, i + 1)
         IN  IF details[i].position_data.netQty = 0
             THEN rest
             ELSE [failed_count |-> rest.failed_count + (IF results[i] = "200" THEN 0 ELSE 1),
                   reqs |-> << OrderRequest(details[i]) >> \o rest.reqs]

square_off_all_positions(details, results) ==
    IF details = <<>>
    THEN [ok |-> TRUE, reqs |-> <<>>]
    ELSE LET r == SquareOffFrom(details, results, 1)
         IN  [ok |-> (r.failed_count = 0), reqs |-> r.reqs]

pending_orders(orders) == SelectSeq(orders, LAMBDA o : o.orderStatus \in {"PENDING", "TRANSIT"})

\* the loop of lines 549-566 leaving at the first cancel that fails
RECURSIVE CancelFrom_StopAtFailure(_, _)
CancelFrom_StopAtFailure(pending, i) ==
    IF i > Len(pending) THEN [failed_count |-> 0, reqs |-> <<>>]
    ELSE IF pending[i].cancel # "200"
    THEN [failed_count |-> 1, reqs |-> << <<"DELETE", pending[i].orderId>> >>]
    ELSE LET rest == CancelFrom_StopAtFailure(pending, i + 1)
         IN  [failed_count |-> rest.failed_count,
              reqs |-> << <<"DELETE", pending[i].orderId>> >> \o rest.reqs]

\* lines 549-566: one cancel request per pending order, failures counted
RECURSIVE CancelFrom(_, _)
CancelFrom(pending, i) ==
    IF i > Len(pending) THEN [failed_count |-> 0, reqs |-> <<>>]
    ELSE LET rest == CancelFrom(pending, i + 1)
         IN  [failed_count |-> rest.failed_count + (IF pending[i].cancel = "200" THEN 0 ELSE 1),
              reqs |-> << <<"DELETE", pending[i].orderId>> >> \o rest.reqs]

\* lines 515-577 without the except clause of lines 575-577: a request for the
\* order list that raises leaves the method as an exception
cancel_all_pending_orders_Raises(resp) ==
    LET get == << <<"GET", "/orders">> >>
        r   == CancelFrom(pending_orders(resp.orders), 1)
    IN  IF resp.status = "timeout" THEN [ok |-> FALSE, reqs |-> get, raises |-> TRUE]
        ELSE IF resp.status # "200" THEN [ok |-> FALSE, reqs |-> get, raises |-> FALSE]
        ELSE IF resp.orders = <<>> THEN [ok |-> TRUE, reqs |-> get, raises |-> FALSE]
        ELSE IF pending_orders(resp.orders) = <<>> THEN [ok |-> TRUE, reqs |-> get, raises |-> FALSE]
        ELSE [ok |-> (r.failed_count = 0), reqs |-> get \o r.reqs, raises |-> FALSE]

\* lines 515-577: the order list is fetched and every PENDING or TRANSIT order
\* cancelled; a status other than 200 and an exception of the request for the
\* list (status "timeout", caught at lines 575-577) both return False
cancel_all_pending_orders(resp) ==
    LET get == << <<"GET", "/orders">> >>
        r   == CancelFrom(pending_orders(resp.orders), 1)
    IN  IF resp.status # "200" THEN [ok |-> FALSE, reqs |-> get, raises |-> FALSE]
        ELSE IF resp.orders = <<>> THEN [ok |-> TRUE, reqs |-> get, raises |-> FALSE]
        ELSE IF pending_orders(resp.orders) = <<>> THEN [ok |-> TRUE, reqs |-> get, raises |-> FALSE]
        ELSE [ok |-> (r.failed_count = 0), reqs |-> get \o r.reqs, raises |-> FALSE]

\* trigger_kill_switch without line 605: success is reported, the flag is not set
trigger_kill_switch_FlagNotSet(resp) ==
    LET req == << <<"POST", "/killSwitch">> >>
    IN  IF resp.status = "200"
        THEN IF Contains(Lower(Spelling[resp.killSwitchStatus]), activated)
             THEN [ok |-> TRUE,  detail |-> resp.killSwitchStatus, sets |-> FALSE, reqs |-> req]
             ELSE [ok |-> FALSE, detail |-> resp.killSwitchStatus, sets |-> FALSE, reqs |-> req]
        ELSE IF resp.status = "timeout"
        THEN [ok |-> FALSE, detail |-> "Request timed out", sets |-> FALSE, reqs |-> req]
        ELSE [ok |-> FALSE, detail |-> resp.status, sets |-> FALSE, reqs |-> req]

\* trigger_kill_switch with line 600 testing the status string as it came
trigger_kill_switch_CaseSensitive(resp) ==
    LET req == << <<"POST", "/killSwitch">> >>
    IN  IF resp.status = "200"
        THEN IF Contains(Spelling[resp.killSwitchStatus], activated)
             THEN [ok |-> TRUE,  detail |-> resp.killSwitchStatus, sets |-> TRUE,  reqs |-> req]
             ELSE [ok |-> FALSE, detail |-> resp.killSwitchStatus, sets |-> FALSE, reqs |-> req]
        ELSE IF resp.status = "timeout"
        THEN [ok |-> FALSE, detail |-> "Request timed out", sets |-> FALSE, reqs |-> req]
        ELSE [ok |-> FALSE, detail |-> resp.status, sets |-> FALSE, reqs |-> req]

\* trigger_kill_switch: [success, detail], and whether it sets kill_switch_triggered
trigger_kill_switch(resp) ==
    LET req == << <<"POST", "/killSwitch">> >>
    IN  IF resp.status = "200"
        THEN IF Contains(Lower(Spelling[resp.killSwitchStatus]), activated)
             THEN [ok |-> TRUE,  detail |-> resp.killSwitchStatus, sets |-> TRUE,  reqs |-> req]
             ELSE [ok |-> FALSE, detail |-> resp.killSwitchStatus, sets |-> FALSE, reqs |-> req]
        ELSE IF resp.status = "timeout"
        THEN [ok |-> FALSE, detail |-> "Request timed out", sets |-> FALSE, reqs |-> req]
        ELSE [ok |-> FALSE, detail |-> resp.status, sets |-> FALSE, reqs |-> req]


\* _get_positions_for_telegram: the list for the PNL message, or None as ok = FALSE
get_positions_for_telegram(resp) ==
    IF resp.status = "200"
    THEN [ok |-> TRUE,
          positions |-> [i \in 1..Len(resp.data) |->
                            [symbol |-> resp.data[i].tradingSymbol,
                             realized |-> resp.data[i].realizedProfit,
                             unrealized |-> resp.data[i].unrealizedProfit,
                             total |-> resp.data[i].realizedProfit + resp.data[i].unrealizedProfit]],
          reqs |-> << <<"GET", "/positions">> >>]
    ELSE [ok |-> FALSE, positions |-> <<>>, reqs |-> << <<"GET", "/positions">> >>]

----------------------------------------------------------------------------
(* CONFIG *)

\* line 118 alone: SEND_PNL_UPDATES whatever the periodic interval
EFFECTIVE_SEND_PNL_UPDATES_AsConfigured(c) == c.SEND_PNL_UPDATES

\* lines 114-118: periodic updates switch the per-check PNL message off
EFFECTIVE_SEND_PNL_UPDATES(c) ==
    IF c.TELEGRAM_PNL_INTERVAL_SECONDS > 0 THEN FALSE ELSE c.SEND_PNL_UPDATES

\* self.telegram is a notifier exactly when Telegram is enabled (monitor_risk)
telegram(c) == c.TELEGRAM_ENABLED

\* what Telegram does with a sendMessage request: accepts it, rejects it, no answer
TelegramAnswers == {"200", "400", "timeout"}

\* lines 170-192 without the except clause of lines 189-191
send_message_Raises(enabled, answer) ==
    [returns |-> enabled /\ answer = "200", raises |-> enabled /\ answer = "timeout"]

\* lines 170-192: True for a 200, False for a disabled notifier, another status
\* or an exception of the request; no exception leaves send_message
send_message(enabled, answer) ==
    [returns |-> enabled /\ answer = "200", raises |-> FALSE]

\* the notifier methods; each of them ends in `return self.send_message(message)`
SendEvents == {"send_message", "send_pnl_update", "send_kill_switch_alert", "send_error_alert"}

\* what the notifier calls among the events t returned, in order
SendReturns(t, answer) ==
    [k \in 1..Cardinality({ i \in 1..Len(t) : t[i][1] \in SendEvents }) |->
        send_message(TRUE, answer).returns]

\* check_and_manage_risk left by an exception instead of a return
Raised == <<"EXCEPTION", "">>

----------------------------------------------------------------------------
(* check_and_manage_risk, step by step *)

\* line 652 computing the trailed amount instead of the level
new_trailing_stoploss_Amount(p, trail_percent) ==
    IF RoundsToOne(trail_percent) THEN 0
    ELSE (p * trail_percent.m) \div (100 * Pow10(trail_percent.e))

\* line 652 adding the trailed amount to the PNL
new_trailing_stoploss_Above(p, trail_percent) ==
    IF RoundsToOne(trail_percent) THEN p
    ELSE (p * (100 * Pow10(trail_percent.e) + trail_percent.m))
             \div (100 * Pow10(trail_percent.e))

\* line 652, on hundredths of a rupee: pnl * (1 - (trail_percent / 100)), the
\* factor being the float the subtraction gives
new_trailing_stoploss(p, trail_percent) ==
    IF RoundsToOne(trail_percent) THEN p
    ELSE (p * (100 * Pow10(trail_percent.e) - trail_percent.m))
             \div (100 * Pow10(trail_percent.e))

\* lines 646-657 without the activation test of line 650
TrailingStoploss_NoActivation(c, sl, p) ==
    IF /\ c.ENABLE_TRAILING_STOPLOSS
       /\ p > 0
       /\ IsPositive(c.TRAILING_STOPLOSS_TRAIL_PERCENT)
       /\ new_trailing_stoploss(p, c.TRAILING_STOPLOSS_TRAIL_PERCENT) > sl
    THEN new_trailing_stoploss(p, c.TRAILING_STOPLOSS_TRAIL_PERCENT)
    ELSE sl

\* lines 646-657 without the test of ENABLE_TRAILING_STOPLOSS at line 646
TrailingStoploss_AlwaysEnabled(c, sl, p) ==
    IF /\ p > 0
       /\ c.TRAILING_STOPLOSS_ACTIVATE_PROFIT > 0
       /\ IsPositive(c.TRAILING_STOPLOSS_TRAIL_PERCENT)
       /\ p >= c.TRAILING_STOPLOSS_ACTIVATE_PROFIT
       /\ new_trailing_stoploss(p, c.TRAILING_STOPLOSS_TRAIL_PERCENT) > sl
    THEN new_trailing_stoploss(p, c.TRAILING_STOPLOSS_TRAIL_PERCENT)
    ELSE sl

\* lines 646-657 without the test of line 655
TrailingStoploss_NoRatchet(c, sl, p) ==
    IF /\ c.ENABLE_TRAILING_STOPLOSS
       /\ p > 0
       /\ c.TRAILING_STOPLOSS_ACTIVATE_PROFIT > 0
       /\ IsPositive(c.TRAILING_STOPLOSS_TRAIL_PERCENT)
       /\ p >= c.TRAILING_STOPLOSS_ACTIVATE_PROFIT
    THEN new_trailing_stoploss(p, c.TRAILING_STOPLOSS_TRAIL_PERCENT)
    ELSE sl

\* lines 646-657: the level after the trailing ratchet
TrailingStoploss(c, sl, p) ==
    IF /\ c.ENABLE_TRAILING_STOPLOSS
       /\ p > 0
       /\ c.TRAILING_STOPLOSS_ACTIVATE_PROFIT > 0
       /\ IsPositive(c.TRAILING_STOPLOSS_TRAIL_PERCENT)
       /\ p >= c.TRAILING_STOPLOSS_ACTIVATE_PROFIT
       /\ new_trailing_stoploss(p, c.TRAILING_STOPLOSS_TRAIL_PERCENT) > sl
    THEN new_trailing_stoploss(p, c.TRAILING_STOPLOSS_TRAIL_PERCENT)
    ELSE sl

\* lines 661-666
TrailingEvents(c, sl, p) ==
    IF TrailingStoploss(c, sl, p) # sl /\ telegram(c)
    THEN << <<"send_message", "TRAILING_UPDATE", "">> >>
    ELSE <<>>

\* lines 668-676
SendsPnlUpdate(c) ==
    telegram(c) /\ EFFECTIVE_SEND_PNL_UPDATES(c) /\ ~c.SEND_ONLY_ALERTS

PnlUpdateEvents(c, sl, dt, p, positions_data) ==
    IF SendsPnlUpdate(c)
    THEN positions_data.reqs
         \o << <<"send_pnl_update", p, sl, dt>> >>
    ELSE <<>>

\* lines 685-720: the invested value of a position, 0 when the position is skipped
invested_value(pos) ==
    LET net_qty   == pos.position_data.netQty
        avg_price == pos.position_data.avg
    IN  IF net_qty = 0 THEN 0
        ELSE IF avg_price = NoAvg \/ avg_price = 0 THEN 0
        ELSE Abs(net_qty) * avg_price

\* percent >= threshold and percent <= -threshold, for a positive invested value
PercentAtLeast(pos, threshold_pct) == pos.total * 100 >= threshold_pct * invested_value(pos)
PercentAtMost(pos, threshold_pct)  == pos.total * 100 <= threshold_pct * invested_value(pos)

\* lines 739-748 marking every position that reaches the percent check
MarksOf_AllOpen(c, pos) ==
    IF invested_value(pos) = 0 THEN <<>>
    ELSE << [pos |-> pos, reason |-> "TAKE_PROFIT"] >>

\* lines 739-748: what one position appends to positions_to_square
MarksOf(c, pos) ==
    IF invested_value(pos) = 0 THEN <<>>
    ELSE (IF PercentAtLeast(pos, c.POSITION_PERCENT_TAKE)
          THEN << [pos |-> pos, reason |-> "TAKE_PROFIT"] >> ELSE <<>>)
         \o
         (IF /\ c.ENABLE_POSITION_PERCENT_STOPLOSS
             /\ c.POSITION_PERCENT_STOPLOSS > 0
             /\ PercentAtMost(pos, -Abs(c.POSITION_PERCENT_STOPLOSS))
          THEN << [pos |-> pos, reason |-> "POSITION_STOPLOSS"] >> ELSE <<>>)

\* lines 685-748 with the loop left (break) at the first position it skips
RECURSIVE MarksFrom_StopAtSkip(_, _, _)
MarksFrom_StopAtSkip(c, details, i) ==
    IF i > Len(details) THEN <<>>
    ELSE IF invested_value(details[i]) = 0 THEN <<>>
    ELSE MarksOf(c, details[i]) \o MarksFrom_StopAtSkip(c, details, i + 1)

RECURSIVE MarksFrom(_, _, _)
MarksFrom(c, details, i) ==
    IF i > Len(details) THEN <<>>
    ELSE MarksOf(c, details[i]) \o MarksFrom(c, details, i + 1)

\* lines 680-748
positions_to_square(c, details) ==
    IF c.ENABLE_POSITION_PERCENT_TAKE /\ c.POSITION_PERCENT_TAKE > 0
    THEN MarksFrom(c, details, 1)
    ELSE <<>>

\* lines 750-771 leaving the loop at the first exit that fails
RECURSIVE ExitEvents_StopAtFailure(_, _, _, _)
ExitEvents_StopAtFailure(c, marks, exits, k) ==
    IF k > Len(marks) THEN <<>>
    ELSE << <<"square_off_position", marks[k].pos.symbol>> >>
         \o exits[k].reqs
         \o << <<"return", "square_off_position", exits[k].ok>> >>
         \o (IF telegram(c)
             THEN << <<"send_message", marks[k].reason, marks[k].pos.symbol>> >>
             ELSE <<>>)
         \o (IF exits[k].ok THEN ExitEvents_StopAtFailure(c, marks, exits, k + 1) ELSE <<>>)

\* lines 750-771: exits[k] is what square_off_position did for the k-th marked position
RECURSIVE ExitEvents(_, _, _, _)
ExitEvents(c, marks, exits, k) ==
    IF k > Len(marks) THEN <<>>
    ELSE << <<"square_off_position", marks[k].pos.symbol>> >>
         \o exits[k].reqs
         \o << <<"return", "square_off_position", exits[k].ok>> >>
         \o (IF telegram(c)
             THEN << <<"send_message", marks[k].reason, marks[k].pos.symbol>> >>
             ELSE <<>>)
         \o ExitEvents(c, marks, exits, k + 1)

\* lines 777-847 with the target tested before the stoploss
Branch_TargetFirst(sl, dt, p) ==
    IF p >= dt THEN "TARGET"
    ELSE IF p <= sl THEN "STOPLOSS"
    ELSE "NONE"

\* the account-level check with a PNL equal to the stoploss level not a breach
Branch_BelowOnly(sl, dt, p) ==
    IF p < sl THEN "STOPLOSS"
    ELSE IF p >= dt THEN "TARGET"
    ELSE "NONE"

\* the account-level check with a PNL equal to the target not yet a breach
Branch_AboveOnly(sl, dt, p) ==
    IF p <= sl THEN "STOPLOSS"
    ELSE IF p > dt THEN "TARGET"
    ELSE "NONE"

\* lines 777, 814, 847: the branch of the account-level check
Branch(sl, dt, p) ==
    IF p <= sl THEN "STOPLOSS"
    ELSE IF p >= dt THEN "TARGET"
    ELSE "NONE"

\* lines 781-788 and 818-825 alerting only when no kill switch will follow
AlertEvents_OnlyWhenDisabled(c, reason, p, limit_value) ==
    IF telegram(c) /\ ~c.ENABLE_KILL_SWITCH
    THEN << <<"send_kill_switch_alert", reason, p, limit_value, c.ENABLE_KILL_SWITCH>> >>
    ELSE <<>>

\* lines 781-788 and 818-825
AlertEvents(c, reason, p, limit_value) ==
    IF telegram(c)
    THEN << <<"send_kill_switch_alert", reason, p, limit_value, c.ENABLE_KILL_SWITCH>> >>
    ELSE <<>>

ConfirmEvents(c, reason) ==
    IF telegram(c) THEN << <<"send_message", "KILL_SWITCH_ACTIVATED", reason>> >> ELSE <<>>

\* lines 794-811 and 828-845 marking the engine triggered whatever the activation did
KillSwitchDecision_AlwaysTriggered(c, reason, breached, ks) ==
    IF c.ENABLE_KILL_SWITCH
    THEN IF ks.ok
         THEN [kst |-> TRUE, outcome |-> <<breached, ks.detail>>,
               events |-> << <<"trigger_kill_switch">> >> \o ks.reqs
                          \o << <<"return", "trigger_kill_switch", ks.ok, ks.detail>> >>
                          \o ConfirmEvents(c, reason)]
         ELSE [kst |-> TRUE, outcome |-> <<"KILL_SWITCH_FAILED", ks.detail>>,
               events |-> << <<"trigger_kill_switch">> >> \o ks.reqs
                          \o << <<"return", "trigger_kill_switch", ks.ok, ks.detail>> >>]
    ELSE [kst |-> TRUE, outcome |-> <<breached, "Kill switch not enabled">>, events |-> <<>>]

\* lines 794-811 and 828-845 calling trigger_kill_switch a second time when the
\* first call failed
KillSwitchDecision_RetriesOnce(c, reason, breached, ks) ==
    LET call == << <<"trigger_kill_switch">> >> \o ks.reqs
                \o << <<"return", "trigger_kill_switch", ks.ok, ks.detail>> >>
    IN  IF c.ENABLE_KILL_SWITCH
        THEN IF ks.ok
             THEN [kst |-> ks.sets, outcome |-> <<breached, ks.detail>>,
                   events |-> call \o ConfirmEvents(c, reason)]
             ELSE [kst |-> ks.sets, outcome |-> <<"KILL_SWITCH_FAILED", ks.detail>>,
                   events |-> call \o call]
        ELSE [kst |-> TRUE, outcome |-> <<breached, "Kill switch not enabled">>, events |-> <<>>]

\* lines 794-811 and 828-845 without the assignments of lines 809 and 843: the
\* flag is left alone when the kill switch is disabled
KillSwitchDecision_DisabledLeavesFlag(c, reason, breached, ks) ==
    LET call == << <<"trigger_kill_switch">> >> \o ks.reqs
                \o << <<"return", "trigger_kill_switch", ks.ok, ks.detail>> >>
    IN  IF c.ENABLE_KILL_SWITCH
        THEN IF ks.ok
             THEN [kst |-> ks.sets, outcome |-> <<breached, ks.detail>>,
                   events |-> call \o ConfirmEvents(c, reason)]
             ELSE [kst |-> ks.sets, outcome |-> <<"KILL_SWITCH_FAILED", ks.detail>>,
                   events |-> call]
        ELSE [kst |-> FALSE, outcome |-> <<breached, "Kill switch not enabled">>,
              events |-> <<>>]

\* lines 794-811 and 828-845: the kill-switch decision of a breach
KillSwitchDecision(c, reason, breached, ks) ==
    IF c.ENABLE_KILL_SWITCH
    THEN IF ks.ok
         THEN [kst |-> ks.sets, outcome |-> <<breached, ks.detail>>,
               events |-> << <<"trigger_kill_switch">> >> \o ks.reqs
                          \o << <<"return", "trigger_kill_switch", ks.ok, ks.detail>> >>
                          \o ConfirmEvents(c, reason)]
         ELSE [kst |-> ks.sets, outcome |-> <<"KILL_SWITCH_FAILED", ks.detail>>,
               events |-> << <<"trigger_kill_switch">> >> \o ks.reqs
                          \o << <<"return", "trigger_kill_switch", ks.ok, ks.detail>> >>]
    ELSE [kst |-> TRUE, outcome |-> <<breached, "Kill switch not enabled">>, events |-> <<>>]

\* lines 777-811 without line 791
StoplossBranch_NoSquareOff(c, sl, p, env) ==
    LET d == KillSwitchDecision(c, "STOPLOSS", "STOPLOSS_BREACHED", env.kill)
    IN  [kst |-> d.kst, outcome |-> d.outcome,
         events |-> AlertEvents(c, "STOPLOSS", p, sl)
                    \o << <<"cancel_all_pending_orders">> >>
                    \o env.cancel.reqs
                    \o << <<"return", "cancel_all_pending_orders", env.cancel.ok>> >>
                    \o d.events]

\* lines 777-811
StoplossBranch(c, sl, p, env) ==
    LET d == KillSwitchDecision(c, "STOPLOSS", "STOPLOSS_BREACHED", env.kill)
    IN  [kst |-> d.kst, outcome |-> d.outcome,
         events |-> AlertEvents(c, "STOPLOSS", p, sl)
                    \o << <<"cancel_all_pending_orders">> >>
                    \o env.cancel.reqs
                    \o << <<"return", "cancel_all_pending_orders", env.cancel.ok>> >>
                    \o << <<"square_off_all_positions">> >>
                    \o env.square.reqs
                    \o << <<"return", "square_off_all_positions", env.square.ok>> >>
                    \o d.events]

\* lines 814-845 with the kill switch triggered whether it is enabled or not
TargetBranch_TriggersAnyway(c, dt, p, env) ==
    LET d == KillSwitchDecision([c EXCEPT !.ENABLE_KILL_SWITCH = TRUE], "TARGET",
                                "TARGET_ACHIEVED", env.kill)
    IN  [kst |-> d.kst, outcome |-> d.outcome,
         events |-> AlertEvents(c, "TARGET", p, dt) \o d.events]

\* lines 814-845
TargetBranch(c, dt, p, env) ==
    LET d == KillSwitchDecision(c, "TARGET", "TARGET_ACHIEVED", env.kill)
    IN  [kst |-> d.kst, outcome |-> d.outcome,
         events |-> AlertEvents(c, "TARGET", p, dt) \o d.events]


\* what a method the call did not reach returns
NotCalled == [ok |-> FALSE, reqs |-> <<>>, detail |-> "", sets |-> FALSE, raises |-> FALSE]

\* lines 633-637 treating a failed fetch as terminal
FetchFailure_Terminal(c, sl, kst, snap) ==
    [sl |-> sl, kst |-> TRUE, outcome |-> <<"ERROR", "Failed to fetch PNL">>,
     trace |-> snap.reqs
               \o (IF telegram(c)
                   THEN << <<"send_error_alert", "Failed to fetch PNL data from Dhan API">> >>
                   ELSE <<>>),
     pnl |-> 0, details |-> <<>>]

\* lines 633-637: the snapshot could not be fetched
FetchFailure(c, sl, kst, snap) ==
    [sl |-> sl, kst |-> kst, outcome |-> <<"ERROR", "Failed to fetch PNL">>,
     trace |-> snap.reqs
               \o (IF telegram(c)
                   THEN << <<"send_error_alert", "Failed to fetch PNL data from Dhan API">> >>
                   ELSE <<>>),
     pnl |-> 0, details |-> <<>>]

\* lines 631-849: the check of an engine not yet triggered.  env: what the
\* methods this call reaches do and return
\* (snap: get_positions_pnl, positions_data: _get_positions_for_telegram,
\* exits: square_off_position per marked position, cancel: cancel_all_pending_orders,
\* square: square_off_all_positions, kill: trigger_kill_switch, telegram: the
\* answer to the notifier's requests).  The notifier calls of lines 636 and 676
\* are outside any try block, and so is the call of line 790: an exception of
\* theirs would leave the method.
RiskCheck(c, sl, dt, kst, env) ==
    LET snap   == env.snap
        p      == snap.pnl
        sl2    == TrailingStoploss(c, sl, p)
        marks  == positions_to_square(c, snap.details)
        before == snap.reqs
                  \o TrailingEvents(c, sl, p)
                  \o PnlUpdateEvents(c, sl2, dt, p, env.positions_data)
                  \o ExitEvents(c, marks, env.exits, 1)
        sb     == StoplossBranch(c, sl2, p, env)
        tb     == TargetBranch(c, dt, p, env)
        raises == telegram(c) /\ send_message(TRUE, env.telegram).raises
    IN  IF ~snap.ok
        THEN (IF raises
              THEN [FetchFailure(c, sl, kst, snap) EXCEPT !.outcome = Raised]
              ELSE FetchFailure(c, sl, kst, snap))
        ELSE IF raises /\ SendsPnlUpdate(c)
        THEN [sl |-> sl2, kst |-> kst, outcome |-> Raised,
              trace |-> snap.reqs \o TrailingEvents(c, sl, p)
                        \o PnlUpdateEvents(c, sl2, dt, p, env.positions_data),
              pnl |-> p, details |-> snap.details]
        ELSE IF Branch(sl2, dt, p) = "STOPLOSS" /\ env.cancel.raises
        THEN [sl |-> sl2, kst |-> kst, outcome |-> Raised,
              trace |-> before \o AlertEvents(c, "STOPLOSS", p, sl2)
                        \o << <<"cancel_all_pending_orders">> >> \o env.cancel.reqs,
              pnl |-> p, details |-> snap.details]
        ELSE IF Branch(sl2, dt, p) = "STOPLOSS"
        THEN [sl |-> sl2, kst |-> sb.kst, outcome |-> sb.outcome,
              trace |-> before \o sb.events, pnl |-> p, details |-> snap.details]
        ELSE IF Branch(sl2, dt, p) = "TARGET"
        THEN [sl |-> sl2, kst |-> tb.kst, outcome |-> tb.outcome,
              trace |-> before \o tb.events, pnl |-> p, details |-> snap.details]
        ELSE [sl |-> sl2, kst |-> kst, outcome |-> <<"WITHIN_LIMITS", "Success">>,
              trace |-> before, pnl |-> p, details |-> snap.details]

\* lines 624-849 with the short-circuit of line 627 taken only when the kill
\* switch is enabled
check_and_manage_risk_OnlyWhenEnabled(c, sl, dt, kst, env) ==
    IF kst /\ c.ENABLE_KILL_SWITCH
    THEN [sl |-> sl, kst |-> kst, outcome |-> <<"KILL_SWITCH_ACTIVE", "Success">>,
          trace |-> <<>>, pnl |-> 0, details |-> <<>>]
    ELSE RiskCheck(c, sl, dt, kst, env)

\* lines 624-849
check_and_manage_risk(c, sl, dt, kst, env) ==
    IF kst
    THEN [sl |-> sl, kst |-> kst, outcome |-> <<"KILL_SWITCH_ACTIVE", "Success">>,
          trace |-> <<>>, pnl |-> 0, details |-> <<>>]
    ELSE RiskCheck(c, sl, dt, kst, env)

----------------------------------------------------------------------------
(* What the broker lets each method do *)

\* sequences of length n over S
SeqsOfLen(S, n) == { s \in SeqsUpTo(S, n) : Len(s) = n }

SnapshotOutcomes == { get_positions_pnl(resp) : resp \in PositionsResponses }

\* the second GET /positions of a handler: the same rows again, or a failure
TelegramOutcomes(snap) ==
    { get_positions_for_telegram(resp) :
        resp \in { [status |-> "200", data |-> [i \in 1..Len(snap.details) |-> snap.details[i].position_data]],
                   [status |-> "500", data |-> <<>>] } }

ExitOutcomes(marks) ==
    { [k \in 1..Len(marks) |-> square_off_position(marks[k].pos, rs[k])] :
        rs \in SeqsOfLen(OrderResults, Len(marks)) }

CancelOutcomes == { cancel_all_pending_orders(resp) : resp \in OrdersResponses }

SquareOutcomes(details) ==
    { square_off_all_positions(details, rs) : rs \in SeqsOfLen(OrderResults, Len(details)) }

KillOutcomes == { trigger_kill_switch(resp) : resp \in KillSwitchResponses }

\* What each method a call reaches can do and return, for a call that fetched
\* snap: one set per method, {NotCalled} for a method the call does not reach.
CheckEnvs(c, sl, dt, snap) ==
    LET sl2   == TrailingStoploss(c, sl, snap.pnl)
        marks == positions_to_square(c, snap.details)
        sbr   == snap.ok /\ Branch(sl2, dt, snap.pnl) = "STOPLOSS"
        tgt   == snap.ok /\ Branch(sl2, dt, snap.pnl) = "TARGET"
    IN  [positions_data |-> IF snap.ok /\ SendsPnlUpdate(c) THEN TelegramOutcomes(snap) ELSE {NotCalled},
         exits    |-> IF snap.ok THEN ExitOutcomes(marks) ELSE { <<>> },
         cancel   |-> IF sbr THEN CancelOutcomes ELSE {NotCalled},
         square   |-> IF sbr THEN SquareOutcomes(snap.details) ELSE {NotCalled},
         kill     |-> IF (sbr \/ tgt) /\ c.ENABLE_KILL_SWITCH THEN KillOutcomes ELSE {NotCalled},
         telegram |-> IF telegram(c) THEN TelegramAnswers ELSE {"200"}]

----------------------------------------------------------------------------
(* Market clock *)

Seconds(t) == (t[1] * 60 + t[2]) * 60 + t[3]

\* datetime.strptime(text, "%H:%M").time(), text given as <<hours, minutes>>
ParseTime(hm) == <<hm[1], hm[2], 0>>

\* is_market_hours with the closing time itself outside the window
is_market_hours_BeforeClose(c, t) ==
    LET start_time == ParseTime(c.MARKET_START_TIME)
        end_time   == ParseTime(c.MARKET_END_TIME)
    IN  Seconds(start_time) <= Seconds(t) /\ Seconds(t) < Seconds(end_time)

\* lines 883-895; t is datetime.now().time()
is_market_hours(c, t) ==
    LET start_time == ParseTime(c.MARKET_START_TIME)
        end_time   == ParseTime(c.MARKET_END_TIME)
        is_weekday == TRUE
    IN  is_weekday /\ Seconds(start_time) <= Seconds(t) /\ Seconds(t) <= Seconds(end_time)

\* Clock readings: just before the open, at the open, at the close, just after it.
Times == { <<9, 14, 59>>, <<9, 15, 0>>, <<15, 30, 0>>, <<15, 30, 1>> }

----------------------------------------------------------------------------
(* Configurations *)

BaseConfig ==
    [ ACCESS_TOKEN |-> "token",
      DAILY_STOPLOSS |-> R(-1000), DAILY_TARGET |-> R(2000),
      CHECK_INTERVAL_SECONDS |-> 1,
      MARKET_START_TIME |-> <<9, 15>>, MARKET_END_TIME |-> <<15, 30>>,
      ENABLE_KILL_SWITCH |-> FALSE,
      TELEGRAM_ENABLED |-> FALSE,
      TELEGRAM_BOT_TOKEN |-> "bot", TELEGRAM_CHAT_ID |-> "chat",
      SEND_PNL_UPDATES |-> FALSE, SEND_ONLY_ALERTS |-> FALSE,
      TELEGRAM_PNL_INTERVAL_SECONDS |-> 0,
      ENABLE_TRAILING_STOPLOSS |-> FALSE,
      TRAILING_STOPLOSS_ACTIVATE_PROFIT |-> R(1000), TRAILING_STOPLOSS_TRAIL_PERCENT |-> Whole(10),
      ENABLE_POSITION_PERCENT_TAKE |-> FALSE, POSITION_PERCENT_TAKE |-> 5,
      ENABLE_POSITION_PERCENT_STOPLOSS |-> FALSE, POSITION_PERCENT_STOPLOSS |-> 2 ]

\* account-level limits, kill switch and notifier
AccountConfigs ==
    { [BaseConfig EXCEPT !.ENABLE_KILL_SWITCH = ks, !.TELEGRAM_ENABLED = tg] :
        ks \in BOOLEAN, tg \in BOOLEAN }

\* trailing stoploss, with and without the notifier
TrailingConfigs ==
    { [BaseConfig EXCEPT !.ENABLE_TRAILING_STOPLOSS = TRUE, !.TELEGRAM_ENABLED = tg] :
        tg \in BOOLEAN }

\* trailing with a trail percent of 1e-15: inside (0, 100), and so small that
\* line 652 multiplies the PNL by 1.0
TinyTrailConfigs ==
    { [BaseConfig EXCEPT !.ENABLE_TRAILING_STOPLOSS = TRUE,
                         !.TRAILING_STOPLOSS_TRAIL_PERCENT = Percent(1, 15)] }

\* limits set the wrong way round: the stoploss above the target
CrossedConfigs ==
    { [BaseConfig EXCEPT !.DAILY_STOPLOSS = R(2500), !.ENABLE_KILL_SWITCH = ks,
                         !.TELEGRAM_ENABLED = tg] :
        ks \in BOOLEAN, tg \in BOOLEAN }

\* per-position exits
PositionConfigs ==
    { [BaseConfig EXCEPT !.TELEGRAM_ENABLED = tg,
                         !.ENABLE_POSITION_PERCENT_TAKE = tk,
                         !.ENABLE_POSITION_PERCENT_STOPLOSS = ps] :
        tg \in BOOLEAN, tk \in BOOLEAN, ps \in BOOLEAN }

\* PNL messages: per check, periodic, alerts only
MessageConfigs ==
    { [BaseConfig EXCEPT !.TELEGRAM_ENABLED = TRUE, !.SEND_PNL_UPDATES = up,
                         !.SEND_ONLY_ALERTS = oa, !.TELEGRAM_PNL_INTERVAL_SECONDS = iv] :
        up \in BOOLEAN, oa \in BOOLEAN, iv \in {0, 60} }

\* limits some snapshot meets exactly: the PNL of one row of PositionKinds
BoundaryConfigs ==
    { [BaseConfig EXCEPT !.DAILY_STOPLOSS = R(-1100), !.DAILY_TARGET = R(1200)] }

\* configurations validate_config rejects
InvalidConfigs ==
    { [BaseConfig EXCEPT !.DAILY_TARGET = 0],
      [BaseConfig EXCEPT !.CHECK_INTERVAL_SECONDS = 0],
      [BaseConfig EXCEPT !.ACCESS_TOKEN = "YOUR_ACCESS_TOKEN_HERE"],
      [BaseConfig EXCEPT !.TELEGRAM_ENABLED = TRUE, !.TELEGRAM_BOT_TOKEN = "YOUR_BOT_TOKEN"],
      [BaseConfig EXCEPT !.TELEGRAM_ENABLED = TRUE, !.TELEGRAM_CHAT_ID = "YOUR_CHAT_ID"],
      [BaseConfig EXCEPT !.ENABLE_TRAILING_STOPLOSS = TRUE, !.TRAILING_STOPLOSS_ACTIVATE_PROFIT = 0],
      [BaseConfig EXCEPT !.ENABLE_TRAILING_STOPLOSS = TRUE, !.TRAILING_STOPLOSS_TRAIL_PERCENT = Whole(0)],
      [BaseConfig EXCEPT !.ENABLE_TRAILING_STOPLOSS = TRUE, !.TRAILING_STOPLOSS_TRAIL_PERCENT = Whole(100)] }

\* os.getenv of a variable the environment does not set (lines 57-58)
None == "None"

\* the notifier enabled with a credential missing from the environment
UnsetCredentialConfigs ==
    { [BaseConfig EXCEPT !.TELEGRAM_ENABLED = TRUE, !.TELEGRAM_BOT_TOKEN = None],
      [BaseConfig EXCEPT !.TELEGRAM_ENABLED = TRUE, !.TELEGRAM_CHAT_ID = None] }

Configs ==
    AccountConfigs \cup TrailingConfigs \cup TinyTrailConfigs \cup CrossedConfigs \cup PositionConfigs
        \cup MessageConfigs \cup BoundaryConfigs \cup InvalidConfigs
        \cup UnsetCredentialConfigs

\* lines 993-1040: the list of errors, as a set
validate_config(c) ==
    (IF c.ACCESS_TOKEN = "YOUR_ACCESS_TOKEN_HERE" THEN {"ACCESS_TOKEN not configured"} ELSE {})
    \cup (IF c.DAILY_TARGET <= 0 THEN {"DAILY_TARGET must be positive"} ELSE {})
    \cup (IF c.CHECK_INTERVAL_SECONDS < 1 THEN {"CHECK_INTERVAL_SECONDS must be at least 1"} ELSE {})
    \cup (IF c.TELEGRAM_ENABLED /\ c.TELEGRAM_BOT_TOKEN = "YOUR_BOT_TOKEN"
          THEN {"TELEGRAM_BOT_TOKEN not configured (Telegram is enabled)"} ELSE {})
    \cup (IF c.TELEGRAM_ENABLED /\ c.TELEGRAM_CHAT_ID = "YOUR_CHAT_ID"
          THEN {"TELEGRAM_CHAT_ID not configured (Telegram is enabled)"} ELSE {})
    \cup (IF c.ENABLE_TRAILING_STOPLOSS /\ c.TRAILING_STOPLOSS_ACTIVATE_PROFIT <= 0
          THEN {"TRAILING_STOPLOSS_ACTIVATE_PROFIT must be positive"} ELSE {})
    \cup (IF c.ENABLE_TRAILING_STOPLOSS
             /\ ~(IsPositive(c.TRAILING_STOPLOSS_TRAIL_PERCENT)
                  /\ BelowHundred(c.TRAILING_STOPLOSS_TRAIL_PERCENT))
          THEN {"TRAILING_STOPLOSS_TRAIL_PERCENT must be between 0 and 100"} ELSE {})

----------------------------------------------------------------------------
(* The program: main(), the scheduler and the two scheduled handlers *)

NoOutcome == <<"NONE", "">>

\* main() applies no executor method on its own
NoMethod == [name |-> "none", input |-> <<>>, returned |-> FALSE, result |-> <<>>]

JobNames == {"monitor_risk", "send_periodic_pnl"}

\* the scheduler's times are not followed
NoScheduler ==
    [clock |-> 0, next_run |-> [j \in JobNames |-> 0], finished |-> [j \in JobNames |-> 0],
     took |-> [j \in JobNames |-> 0], active |-> <<>>]

BreachStatuses == {"STOPLOSS_BREACHED", "TARGET_ACHIEVED"}

\* The state main() starts in.  The engine's fields show the values __init__
\* (lines 329-340) gives them; risk_manager is None until a handler creates it.
Init ==
    /\ cfg \in Configs
    /\ risk_manager = FALSE
    /\ daily_stoploss = cfg.DAILY_STOPLOSS
    /\ daily_target = cfg.DAILY_TARGET
    /\ kill_switch_triggered = FALSE
    /\ op = "none"
    /\ outcome = NoOutcome
    /\ trace = <<>>
    /\ pnl = 0
    /\ position_details = <<>>
    /\ sl_before = cfg.DAILY_STOPLOSS
    /\ kst_before = FALSE
    /\ sent = <<>>
    /\ returned_breach = "NONE"
    /\ last_failed = FALSE
    /\ pc = "start"
    /\ now \in Times
    /\ jobs = {}
    /\ batch = <<>>
    /\ method = NoMethod
    /\ scheduler = NoScheduler

\* a handler that returns before it reaches the engine
Skipped(name, events) ==
    /\ op' = name
    /\ outcome' = NoOutcome
    /\ trace' = events
    /\ pnl' = 0
    /\ position_details' = <<>>
    /\ sl_before' = daily_stoploss
    /\ kst_before' = kill_switch_triggered
    /\ sent' = <<>>
    /\ UNCHANGED <<daily_stoploss, daily_target, kill_switch_triggered>>

\* main() is back in control: the status list of the check made meanwhile
\* (line 927), if there was one, becomes the status of the previous check
BackInMain ==
    /\ Skipped("main", <<>>)
    /\ last_failed' = IF outcome # NoOutcome THEN outcome[1] = "KILL_SWITCH_FAILED" ELSE last_failed
    /\ returned_breach' = IF returned_breach = "NONE" /\ outcome[1] \in BreachStatuses
                          THEN outcome[1] ELSE returned_breach

\* lines 941-944 without the alert
KillSwitchFailedAlert_Silent(c, status) == <<>>

\* lines 941-944
KillSwitchFailedAlert(c, status) ==
    IF status[1] = "KILL_SWITCH_FAILED" /\ telegram(c)
    THEN << <<"send_error_alert", "Kill switch activation FAILED!">> >>
    ELSE <<>>

\* lines 912-921 and 962-969 without the test for None: a new engine per call
EnsureRiskManager_AlwaysNew(rm, c, sl, kst) ==
    [daily_stoploss |-> c.DAILY_STOPLOSS, kill_switch_triggered |-> FALSE]

\* lines 912-921 and 962-969: the engine a handler works on, constructed
\* (lines 329-340) only when there is none yet
EnsureRiskManager(rm, c, sl, kst) ==
    IF rm THEN [daily_stoploss |-> sl, kill_switch_triggered |-> kst]
    ELSE [daily_stoploss |-> c.DAILY_STOPLOSS, kill_switch_triggered |-> FALSE]

Engine == EnsureRiskManager(risk_manager, cfg, daily_stoploss, kill_switch_triggered)

\* monitor_risk, lines 904-944, up to its return value
MonitorRisk ==
    IF ~is_market_hours(cfg, now)
    THEN Skipped("monitor_risk", <<>>) /\ UNCHANGED <<risk_manager, historyVars>>
    ELSE /\ risk_manager' = TRUE
         /\ \E snap \in (IF Engine.kill_switch_triggered THEN {NotCalled} ELSE SnapshotOutcomes) :
              LET envs == CheckEnvs(cfg, Engine.daily_stoploss, daily_target, snap)
              IN  \E tg \in envs.positions_data, ex \in envs.exits, ca \in envs.cancel,
                     sq \in envs.square, k \in envs.kill, an \in envs.telegram :
                    LET r == check_and_manage_risk(cfg, Engine.daily_stoploss, daily_target,
                                                   Engine.kill_switch_triggered,
                                                   [snap |-> snap, positions_data |-> tg,
                                                    exits |-> ex, cancel |-> ca, square |-> sq,
                                                    kill |-> k, telegram |-> an])
                    IN  /\ daily_stoploss' = r.sl
                        /\ kill_switch_triggered' = r.kst
                        /\ outcome' = r.outcome
                        /\ trace' = r.trace \o KillSwitchFailedAlert(cfg, r.outcome)
                        /\ sent' = SendReturns(trace', an)
                        /\ pnl' = r.pnl
                        /\ position_details' = r.details
         /\ op' = "monitor_risk"
         /\ sl_before' = Engine.daily_stoploss
         /\ kst_before' = Engine.kill_switch_triggered
         /\ UNCHANGED <<daily_target, historyVars>>

\* lines 1052-1090: validation, then the start-up message
MainStart ==
    /\ pc = "start"
    /\ pc' = IF validate_config(cfg) # {} THEN "exit1" ELSE "initial_check"
    /\ UNCHANGED <<cfg, method, scheduler, risk_manager, engineVars, callVars, historyVars, now, jobs, batch>>

\* line 1094: main calls monitor_risk itself and drops what it returns
InitialCheck ==
    /\ pc = "initial_check"
    /\ MonitorRisk
    /\ pc' = "schedule"
    /\ UNCHANGED <<cfg, method, scheduler, now, jobs, batch>>

\* lines 1100-1105
ScheduleJobs ==
    /\ pc = "schedule"
    /\ jobs' = {"monitor_risk"}
               \cup (IF cfg.TELEGRAM_ENABLED /\ cfg.TELEGRAM_PNL_INTERVAL_SECONDS > 0
                     THEN {"send_periodic_pnl"} ELSE {})
    /\ pc' = "loop"
    /\ BackInMain
    /\ UNCHANGED <<cfg, method, scheduler, risk_manager, now, batch>>

\* orders in which run_pending can find a non-empty set of jobs due
Batches(js) ==
    { <<j>> : j \in js } \cup { <<p[1], p[2]>> : p \in { q \in js \X js : q[1] # q[2] } }

\* line 1109: run_pending lists the jobs that are due at this reading of the clock
RunPending ==
    /\ pc = "loop"
    /\ jobs # {}
    /\ now' \in Times
    /\ batch' \in Batches(jobs)
    /\ pc' = "run_pending"
    /\ UNCHANGED <<cfg, method, scheduler, risk_manager, engineVars, callVars, historyVars, jobs>>

\* line 1110: the due jobs have run and the loop sleeps; what the handlers
\* left behind (their return values and locals) is gone
Sleep ==
    /\ pc = "run_pending"
    /\ batch = <<>>
    /\ pc' = "loop"
    /\ BackInMain
    /\ UNCHANGED <<cfg, method, scheduler, risk_manager, now, jobs, batch>>

\* the scheduled monitor_risk cancelling its job after a failed kill switch too
MonitorRiskJob_CancelsOnFailure ==
    /\ pc = "run_pending"
    /\ batch # <<>>
    /\ Head(batch) = "monitor_risk"
    /\ MonitorRisk
    /\ jobs' = IF outcome'[1] \in BreachStatuses \cup {"KILL_SWITCH_FAILED"} THEN {} ELSE jobs
    /\ batch' = Tail(batch)
    /\ UNCHANGED <<cfg, method, scheduler, pc, now>>

\* the scheduled monitor_risk; CancelJob after schedule.clear() (lines 930-940)
MonitorRiskJob ==
    /\ pc = "run_pending"
    /\ batch # <<>>
    /\ Head(batch) = "monitor_risk"
    /\ MonitorRisk
    /\ jobs' = IF outcome'[1] \in BreachStatuses THEN {} ELSE jobs
    /\ batch' = Tail(batch)
    /\ UNCHANGED <<cfg, method, scheduler, pc, now>>

\* lines 976-987: what send_periodic_pnl does with the snapshot it fetched
PeriodicResults(c, sl, dt, result, positions_data) ==
    IF ~result.ok
    THEN [pnl |-> 0, details |-> <<>>,
          trace |-> result.reqs
                    \o << <<"send_error_alert", "Failed to fetch PNL for periodic update">> >>]
    ELSE [pnl |-> result.pnl, details |-> result.details,
          trace |-> result.reqs \o positions_data.reqs
                    \o << <<"send_pnl_update", result.pnl, sl, dt>> >>]

\* send_periodic_pnl, lines 947-987, with what its return value does to the job
SendPeriodicPnl ==
    IF ~cfg.TELEGRAM_ENABLED \/ cfg.TELEGRAM_PNL_INTERVAL_SECONDS <= 0 \/ ~is_market_hours(cfg, now)
    THEN Skipped("send_periodic_pnl", <<>>) /\ UNCHANGED <<risk_manager, jobs, historyVars>>
    ELSE /\ risk_manager' = TRUE
         /\ daily_stoploss' = Engine.daily_stoploss
         /\ kill_switch_triggered' = Engine.kill_switch_triggered
         /\ sl_before' = Engine.daily_stoploss
         /\ kst_before' = Engine.kill_switch_triggered
         /\ op' = "send_periodic_pnl"
         /\ outcome' = outcome
         /\ IF Engine.kill_switch_triggered
            THEN /\ trace' = <<>>
                 /\ sent' = <<>>
                 /\ pnl' = 0
                 /\ position_details' = <<>>
                 /\ jobs' = jobs \ {"send_periodic_pnl"}
            ELSE /\ \E result \in SnapshotOutcomes, an \in TelegramAnswers :
                      \E positions_data \in (IF result.ok THEN TelegramOutcomes(result)
                                              ELSE {NotCalled}) :
                         LET r == PeriodicResults(cfg, Engine.daily_stoploss, daily_target,
                                                  result, positions_data)
                         IN  /\ trace' = r.trace
                             /\ sent' = SendReturns(r.trace, an)
                             /\ pnl' = r.pnl
                             /\ position_details' = r.details
                 /\ jobs' = jobs
         /\ UNCHANGED <<daily_target, historyVars>>

\* the scheduled send_periodic_pnl
SendPeriodicPnlJob ==
    /\ pc = "run_pending"
    /\ batch # <<>>
    /\ Head(batch) = "send_periodic_pnl"
    /\ batch' = Tail(batch)
    /\ SendPeriodicPnl
    /\ UNCHANGED <<cfg, method, scheduler, pc, now>>

\* lines 1111-1114: Ctrl+C, arriving while the loop sleeps
KeyboardInterrupt ==
    /\ pc = "loop"
    /\ pc' = "exit0"
    /\ Skipped("main", <<>>)
    /\ UNCHANGED <<cfg, method, scheduler, risk_manager, historyVars, now, jobs, batch>>

Next ==
    \/ MainStart
    \/ InitialCheck
    \/ ScheduleJobs
    \/ RunPending
    \/ Sleep
    \/ MonitorRiskJob
    \/ SendPeriodicPnlJob
    \/ KeyboardInterrupt

Spec == Init /\ [][Next]_vars

----------------------------------------------------------------------------
(* The executor methods on their own: one method of an engine instance is  *)
(* applied once to what the broker answers, outside any check.             *)

\* the broker's answer to one order or one cancel request
RequestResults == {"200", "400", "timeout"}

\* orders of a list: the cancel answer only matters for an order that is cancelled
ListedKinds ==
    { [orderStatus |-> st, cancel |-> r] : st \in {"PENDING", "TRANSIT"}, r \in RequestResults }
    \cup { [orderStatus |-> "TRADED", cancel |-> "200"] }

ListedResponses ==
    { [status |-> st, orders |-> <<>>] : st \in {"500", "timeout"} }
    \cup { [status |-> "200",
            orders |-> [i \in 1..Len(ks) |-> [orderId |-> OrderIds[i],
                                              orderStatus |-> ks[i].orderStatus,
                                              cancel |-> ks[i].cancel]]]
           : ks \in SeqsUpTo(ListedKinds, MaxListed) }

\* a row whose average price is the number zero
ZeroAveragePriceKinds ==
   << [realizedProfit |-> 0, unrealizedProfit |-> R(700), netQty |-> 4, avg |-> 0] >>

\* position_details the per-position checks run over
PercentCheckDetails ==
    LET kinds == PositionKinds \o ZeroAveragePriceKinds
    IN  { [i \in 1..Len(ks) |-> Detail(Row(kinds[ks[i]], i))] :
            ks \in SeqsUpTo(DOMAIN kinds, MaxPositions) }

\* lines 679-774 applied to a snapshot: exits is what square_off_position does
\* for each marked position
PercentCheckCalls ==
    UNION { { [name |-> "per_position_checks",
               input |-> [c |-> c, details |-> d, exits |-> x],
               returned |-> FALSE, result |-> <<>>]
              : x \in ExitOutcomes(positions_to_square(c, d)) }
            : c \in PositionConfigs, d \in PercentCheckDetails }

\* a method and what it is applied to
MethodCalls ==
    { [name |-> "trigger_kill_switch", input |-> resp, returned |-> FALSE, result |-> <<>>]
        : resp \in KillSwitchResponses }
    \cup { [name |-> "square_off_position",
            input |-> [pos |-> Detail(Row(PositionKinds[k], 1)), res |-> r],
            returned |-> FALSE, result |-> <<>>]
           : k \in DOMAIN PositionKinds, r \in RequestResults }
    \cup { [name |-> "cancel_all_pending_orders", input |-> resp, returned |-> FALSE, result |-> <<>>]
           : resp \in ListedResponses }
    \cup { [name |-> "_get_positions_for_telegram", input |-> resp, returned |-> FALSE, result |-> <<>>]
           : resp \in PositionsResponses }
    \cup PercentCheckCalls

\* an engine as __init__ (lines 329-340) or an earlier activation left it
MethodInit ==
    /\ method \in MethodCalls
    /\ cfg = (IF method.name = "per_position_checks" THEN method.input.c ELSE BaseConfig)
    /\ risk_manager = TRUE
    /\ daily_stoploss = cfg.DAILY_STOPLOSS
    /\ daily_target = cfg.DAILY_TARGET
    /\ kill_switch_triggered \in BOOLEAN
    /\ op = "none"
    /\ outcome = NoOutcome
    /\ trace = <<>>
    /\ pnl = 0
    /\ position_details = <<>>
    /\ sl_before = cfg.DAILY_STOPLOSS
    /\ kst_before = kill_switch_triggered
    /\ sent = <<>>
    /\ returned_breach = "NONE"
    /\ last_failed = FALSE
    /\ pc = "start"
    /\ now \in Times
    /\ jobs = {}
    /\ batch = <<>>
    /\ scheduler = NoScheduler

\* what a method applied on its own leaves alone
methodFrame ==
    <<cfg, risk_manager, daily_stoploss, daily_target, outcome, pnl, position_details,
      sl_before, kst_before, sent, returned_breach, last_failed, pc, now, jobs, batch,
      scheduler>>

\* lines 579-622
TriggerKillSwitch ==
    /\ method.name = "trigger_kill_switch" /\ ~method.returned
    /\ LET r == trigger_kill_switch(method.input)
       IN  /\ method' = [method EXCEPT !.returned = TRUE, !.result = <<r.ok, r.detail>>]
           /\ kill_switch_triggered' = (kill_switch_triggered \/ r.sets)
           /\ trace' = r.reqs
    /\ op' = method.name
    /\ UNCHANGED methodFrame

\* lines 472-513
SquareOffPosition ==
    /\ method.name = "square_off_position" /\ ~method.returned
    /\ LET r == square_off_position(method.input.pos, method.input.res)
       IN  /\ method' = [method EXCEPT !.returned = TRUE, !.result = r.ok]
           /\ trace' = r.reqs
    /\ op' = method.name
    /\ UNCHANGED <<methodFrame, kill_switch_triggered>>

\* lines 515-577
CancelAllPendingOrders ==
    /\ method.name = "cancel_all_pending_orders" /\ ~method.returned
    /\ LET r == cancel_all_pending_orders(method.input)
       IN  /\ method' = [method EXCEPT !.returned = TRUE, !.result = r.ok]
           /\ trace' = r.reqs
    /\ op' = method.name
    /\ UNCHANGED <<methodFrame, kill_switch_triggered>>

\* lines 851-877; None is the empty result with ok false
GetPositionsForTelegram ==
    /\ method.name = "_get_positions_for_telegram" /\ ~method.returned
    /\ LET r == get_positions_for_telegram(method.input)
       IN  /\ method' = [method EXCEPT !.returned = TRUE,
                                       !.result = [ok |-> r.ok, positions |-> r.positions]]
           /\ trace' = r.reqs
    /\ op' = method.name
    /\ UNCHANGED <<methodFrame, kill_switch_triggered>>

\* lines 679-774: the per-position block of check_and_manage_risk
PerPositionChecks ==
    /\ method.name = "per_position_checks" /\ ~method.returned
    /\ LET marks == positions_to_square(cfg, method.input.details)
       IN  /\ method' = [method EXCEPT !.returned = TRUE, !.result = marks]
           /\ trace' = ExitEvents(cfg, marks, method.input.exits, 1)
    /\ op' = method.name
    /\ UNCHANGED <<methodFrame, kill_switch_triggered>>

MethodNext ==
    \/ TriggerKillSwitch
    \/ SquareOffPosition
    \/ CancelAllPendingOrders
    \/ GetPositionsForTelegram
    \/ PerPositionChecks

MethodSpec == MethodInit /\ [][MethodNext]_vars

----------------------------------------------------------------------------
(* The loop of main() against the scheduler's clock: when a job is due,    *)
(* how long a handler takes, and when the job is due again.                *)

\* seconds a handler takes when it overruns every interval below
Overrun == 3

\* a handler returns at once or overruns
Durations == {0, Overrun}

\* lines 1100 and 1105: every(n).seconds
Interval(c, j) ==
    IF j = "monitor_risk" THEN c.CHECK_INTERVAL_SECONDS ELSE c.TELEGRAM_PNL_INTERVAL_SECONDS

\* both jobs scheduled, alerts only, with check intervals of one and two seconds
TimedConfigs ==
    { [BaseConfig EXCEPT !.TELEGRAM_ENABLED = TRUE, !.SEND_ONLY_ALERTS = TRUE,
                         !.CHECK_INTERVAL_SECONDS = ci, !.TELEGRAM_PNL_INTERVAL_SECONDS = 2] :
        ci \in {1, 2} }

\* the state lines 1100-1105 leave after an initial check made before the market opened
TimedInit ==
    /\ cfg \in TimedConfigs
    /\ risk_manager = FALSE
    /\ daily_stoploss = cfg.DAILY_STOPLOSS
    /\ daily_target = cfg.DAILY_TARGET
    /\ kill_switch_triggered = FALSE
    /\ op = "main"
    /\ outcome = NoOutcome
    /\ trace = <<>>
    /\ pnl = 0
    /\ position_details = <<>>
    /\ sl_before = cfg.DAILY_STOPLOSS
    /\ kst_before = FALSE
    /\ sent = <<>>
    /\ returned_breach = "NONE"
    /\ last_failed = FALSE
    /\ pc = "loop"
    /\ now = <<9, 14, 59>>
    /\ jobs = JobNames
    /\ batch = <<>>
    /\ method = NoMethod
    /\ scheduler = [NoScheduler EXCEPT !.next_run = [j \in JobNames |-> Interval(cfg, j)]]

\* a job is next due one interval after the scheduled time of the run that ended
schedule_next_run_FixedRate(due, ended, interval) == due + interval

\* a job that has run is next due one interval after the run ended
schedule_next_run(due, ended, interval) == ended + interval

\* the scheduler when the handler of job j returns after `took` seconds
AfterRun(sch, j, took, c) ==
    [sch EXCEPT !.clock = @ + took,
                !.finished[j] = sch.clock + took,
                !.took[j] = took,
                !.next_run[j] = schedule_next_run(@, sch.clock + took, Interval(c, j)),
                !.active = <<>>]

\* the jobs due, in the order run_pending runs them: by next run, then as scheduled
DueJobs(sch, js) ==
    LET due == { j \in js : sch.next_run[j] <= sch.clock }
    IN  IF due = JobNames
        THEN IF sch.next_run["send_periodic_pnl"] < sch.next_run["monitor_risk"]
             THEN <<"send_periodic_pnl", "monitor_risk">>
             ELSE <<"monitor_risk", "send_periodic_pnl">>
        ELSE IF due = {} THEN <<>> ELSE << CHOOSE j \in due : TRUE >>

\* line 1109: run_pending lists the jobs due at this reading of the clock
TimedRunPending ==
    /\ pc = "loop"
    /\ scheduler.clock < MaxClock
    /\ now' \in Times
    /\ batch' = DueJobs(scheduler, jobs)
    /\ pc' = "run_pending"
    /\ UNCHANGED <<cfg, method, scheduler, risk_manager, engineVars, callVars, historyVars, jobs>>

\* run_pending calls the handler of the next job of its list, once the one before has returned
CallJob ==
    /\ pc = "run_pending"
    /\ batch # <<>>
    /\ scheduler.active = <<>>
    /\ scheduler' = [scheduler EXCEPT !.active = Append(@, Head(batch))]
    /\ UNCHANGED <<cfg, method, risk_manager, engineVars, callVars, historyVars, pc, now, jobs, batch>>

\* monitor_risk runs and returns to run_pending
TimedMonitorRisk ==
    /\ pc = "run_pending"
    /\ scheduler.active # <<>>
    /\ Head(scheduler.active) = "monitor_risk"
    /\ MonitorRisk
    /\ jobs' = IF outcome'[1] \in BreachStatuses THEN {} ELSE jobs
    /\ batch' = Tail(batch)
    /\ \E took \in Durations : scheduler' = AfterRun(scheduler, "monitor_risk", took, cfg)
    /\ UNCHANGED <<cfg, method, pc, now>>

\* send_periodic_pnl runs and returns to run_pending
TimedSendPeriodicPnl ==
    /\ pc = "run_pending"
    /\ scheduler.active # <<>>
    /\ Head(scheduler.active) = "send_periodic_pnl"
    /\ SendPeriodicPnl
    /\ batch' = Tail(batch)
    /\ \E took \in Durations : scheduler' = AfterRun(scheduler, "send_periodic_pnl", took, cfg)
    /\ UNCHANGED <<cfg, method, pc, now>>

\* line 1110: time.sleep(1)
TimedSleep ==
    /\ pc = "run_pending"
    /\ batch = <<>>
    /\ scheduler.active = <<>>
    /\ pc' = "loop"
    /\ scheduler' = [scheduler EXCEPT !.clock = @ + 1]
    /\ BackInMain
    /\ UNCHANGED <<cfg, method, risk_manager, now, jobs, batch>>

TimedNext ==
    \/ TimedRunPending
    \/ CallJob
    \/ TimedMonitorRisk
    \/ TimedSendPeriodicPnl
    \/ TimedSleep

TimedSpec == TimedInit /\ [][TimedNext]_vars

----------------------------------------------------------------------------
(* Reading the record of the last handler *)

\* check_and_manage_risk was called
Called == op = "monitor_risk" /\ outcome # NoOutcome

\* check_and_manage_risk was called and fetched a snapshot (line 639)
Evaluated ==
    /\ op = "monitor_risk"
    /\ Len(trace) >= 2
    /\ trace[2][1] = "return" /\ trace[2][2] = "get_positions_pnl" /\ trace[2][3]

Where(t, name) == { i \in 1..Len(t) : t[i][1] = name }

Calls(t, name) == Cardinality(Where(t, name))

\* the place of the only event of that name
At(t, name) == CHOOSE i \in Where(t, name) : TRUE

Alerts(t) == SelectSeq(t, LAMBDA e : e[1] = "send_kill_switch_alert")

TrailingUpdates(t) ==
    Cardinality({ i \in Where(t, "send_message") : t[i][2] = "TRAILING_UPDATE" })

TriggerReturns(t) == { i \in Where(t, "return") : t[i][2] = "trigger_kill_switch" }

ExecutorEvents ==
    {"cancel_all_pending_orders", "square_off_all_positions", "square_off_position",
     "trigger_kill_switch", "POST", "DELETE"}

StoplossHit == Evaluated /\ pnl <= daily_stoploss

TargetHit == Evaluated /\ pnl > daily_stoploss /\ pnl >= daily_target

Max(a, b) == IF a >= b THEN a ELSE b

----------------------------------------------------------------------------
(* Properties *)

\* C1: no step of the program lowers daily_stoploss: after every call of
\* check_and_manage_risk, whatever the PNL and whatever the fetch, the executor
\* and the kill switch did, the level is at least what it was before the call.
C1_StoplossNeverDecreases == [][daily_stoploss' >= daily_stoploss]_vars

\* C1 witness: trailing had raised the level to 1080 and a call with PNL 1000,
\* whose candidate level 900 is lower, left it at 1080.
C1_Witness ==
    /\ cfg.ENABLE_TRAILING_STOPLOSS
    /\ Evaluated
    /\ sl_before = R(1080) /\ pnl = R(1000) /\ daily_stoploss = R(1080)

\* C2: with the kill switch enabled, once a check has returned STOPLOSS_BREACHED
\* or TARGET_ACHIEVED (so the activation succeeded), every later call of
\* check_and_manage_risk returns [KILL_SWITCH_ACTIVE, Success] and makes no
\* cancel, square-off or kill-switch call and no broker request.
C2_TerminalIdempotence ==
    (cfg.ENABLE_KILL_SWITCH /\ returned_breach # "NONE" /\ Called)
        => /\ outcome = <<"KILL_SWITCH_ACTIVE", "Success">>
           /\ \A i \in 1..Len(trace) : trace[i][1] \notin ExecutorEvents
           /\ kill_switch_triggered

\* C2 witness: a call made after the activation succeeded was short-circuited.
C2_Witness ==
    /\ cfg.ENABLE_KILL_SWITCH
    /\ returned_breach \in BreachStatuses
    /\ Called
    /\ outcome[1] = "KILL_SWITCH_ACTIVE"

\* C3: once kill_switch_triggered is true, whichever call set it (the initial
\* check of main() or a scheduled tick), no job is scheduled any more: neither
\* monitor_risk nor send_periodic_pnl.
C3_NothingScheduledOnceTriggered ==
    (pc \in {"loop", "run_pending"} /\ kill_switch_triggered) => jobs = {}

\* C4: a call with PNL >= daily_target and PNL above the stoploss does what the
\* stoploss path does: the breach alert with reason TARGET, then
\* cancel_all_pending_orders, then square_off_all_positions, and only then the
\* kill-switch decision.
C4_TargetPathSameSequence ==
    TargetHit
        => /\ Calls(trace, "cancel_all_pending_orders") = 1
           /\ Calls(trace, "square_off_all_positions") = 1
           /\ At(trace, "cancel_all_pending_orders") < At(trace, "square_off_all_positions")
           /\ telegram(cfg)
                => /\ Calls(trace, "send_kill_switch_alert") = 1
                   /\ Alerts(trace)[1][2] = "TARGET"
                   /\ At(trace, "send_kill_switch_alert") < At(trace, "cancel_all_pending_orders")
           /\ \A i \in Where(trace, "trigger_kill_switch") :
                  At(trace, "square_off_all_positions") < i

\* C5 as stated: with the kill switch disabled, a call whose PNL <= daily_stoploss
\* returns [STOPLOSS_BREACHED, "Kill switch not enabled"], sets
\* kill_switch_triggered, calls cancel_all_pending_orders and
\* square_off_all_positions once each, sends the breach alert
\* (STOPLOSS, pnl, current stoploss, False) and never calls trigger_kill_switch.
C5_AsStated ==
    (~cfg.ENABLE_KILL_SWITCH /\ StoplossHit)
        => /\ outcome = <<"STOPLOSS_BREACHED", "Kill switch not enabled">>
           /\ kill_switch_triggered
           /\ Calls(trace, "cancel_all_pending_orders") = 1
           /\ Calls(trace, "square_off_all_positions") = 1
           /\ Alerts(trace) = << <<"send_kill_switch_alert", "STOPLOSS", pnl, daily_stoploss, FALSE>> >>
           /\ Calls(trace, "trigger_kill_switch") = 0

\* C5 amended: as C5, except that the breach alert (STOPLOSS, pnl, current
\* stoploss, False) is sent once when a Telegram notifier is configured and not
\* at all when none is.
C5_DisabledKillSwitchStoploss ==
    (~cfg.ENABLE_KILL_SWITCH /\ StoplossHit)
        => /\ outcome = <<"STOPLOSS_BREACHED", "Kill switch not enabled">>
           /\ kill_switch_triggered
           /\ Calls(trace, "cancel_all_pending_orders") = 1
           /\ Calls(trace, "square_off_all_positions") = 1
           /\ Alerts(trace) = IF telegram(cfg)
                              THEN << <<"send_kill_switch_alert", "STOPLOSS", pnl, daily_stoploss, FALSE>> >>
                              ELSE <<>>
           /\ Calls(trace, "trigger_kill_switch") = 0

\* C5 witness: the scenario stoploss -1000, kill switch disabled, PNL -1100,
\* with a notifier: one alert, the local terminal outcome.
C5_Witness ==
    /\ ~cfg.ENABLE_KILL_SWITCH /\ telegram(cfg)
    /\ StoplossHit
    /\ sl_before = R(-1000) /\ pnl = R(-1100)
    /\ outcome = <<"STOPLOSS_BREACHED", "Kill switch not enabled">>
    /\ Len(Alerts(trace)) = 1

\* the stoploss path in order: cancel, square off, kill switch, once each
C6_Sequence ==
    /\ Calls(trace, "cancel_all_pending_orders") = 1
    /\ Calls(trace, "square_off_all_positions") = 1
    /\ Calls(trace, "trigger_kill_switch") = 1
    /\ At(trace, "cancel_all_pending_orders") < At(trace, "square_off_all_positions")
    /\ At(trace, "square_off_all_positions") < At(trace, "trigger_kill_switch")
    /\ Cardinality(TriggerReturns(trace)) = 1

\* the activation succeeded: [STOPLOSS_BREACHED, broker status], flag set
C6_Success ==
    \A i \in TriggerReturns(trace) :
        trace[i][3] => /\ outcome = <<"STOPLOSS_BREACHED", trace[i][4]>>
                       /\ kill_switch_triggered

\* C6 as stated: with the kill switch enabled, a call whose PNL <= daily_stoploss
\* sends the breach alert, then calls cancel_all_pending_orders, then
\* square_off_all_positions, then trigger_kill_switch, each exactly once and in
\* that order whatever cancel and square-off return; if the activation succeeds
\* it returns [STOPLOSS_BREACHED, broker status] with kill_switch_triggered true.
C6_AsStated ==
    (cfg.ENABLE_KILL_SWITCH /\ StoplossHit)
        => /\ Calls(trace, "send_kill_switch_alert") = 1
           /\ C6_Sequence
           /\ At(trace, "send_kill_switch_alert") < At(trace, "cancel_all_pending_orders")
           /\ C6_Success

\* C6 amended: as C6, except that the breach alert comes first, once, when a
\* Telegram notifier is configured, and is not sent when none is.
C6_EnabledKillSwitchStoploss ==
    (cfg.ENABLE_KILL_SWITCH /\ StoplossHit)
        => /\ C6_Sequence
           /\ C6_Success
           /\ Calls(trace, "send_kill_switch_alert") = (IF telegram(cfg) THEN 1 ELSE 0)
           /\ telegram(cfg)
                => /\ Alerts(trace)[1][2] = "STOPLOSS"
                   /\ At(trace, "send_kill_switch_alert") < At(trace, "cancel_all_pending_orders")

\* C6 witness: cancel and square-off both failed, the kill switch was still
\* triggered after them and its activation succeeded.
C6_Witness ==
    /\ cfg.ENABLE_KILL_SWITCH /\ telegram(cfg)
    /\ StoplossHit
    /\ \E i \in Where(trace, "return") :
          trace[i][2] = "cancel_all_pending_orders" /\ ~trace[i][3]
    /\ \E i \in Where(trace, "return") :
          trace[i][2] = "square_off_all_positions" /\ ~trace[i][3]
    /\ \E i \in TriggerReturns(trace) : trace[i][3]
    /\ outcome[1] = "STOPLOSS_BREACHED"
    /\ kill_switch_triggered

\* C7: with the kill switch enabled, a call in which trigger_kill_switch failed
\* returns [KILL_SWITCH_FAILED, the failure detail] and leaves
\* kill_switch_triggered false; the call after a KILL_SWITCH_FAILED is evaluated
\* from a fresh snapshot and does not return KILL_SWITCH_ACTIVE.
C7_KillSwitchFailureNotTerminal ==
    /\ (cfg.ENABLE_KILL_SWITCH /\ Called)
          => \A i \in TriggerReturns(trace) :
                ~trace[i][3] => /\ outcome = <<"KILL_SWITCH_FAILED", trace[i][4]>>
                                /\ ~kill_switch_triggered
    /\ (last_failed /\ Called)
          => /\ outcome[1] # "KILL_SWITCH_ACTIVE"
             /\ trace # <<>>
             /\ trace[1] = <<"GET", "/positions">>

\* C7 witness: the call after a failed activation found the breach again, tried
\* the kill switch again and failed again.
C7_Witness ==
    /\ cfg.ENABLE_KILL_SWITCH
    /\ last_failed
    /\ Called
    /\ \E i \in TriggerReturns(trace) : ~trace[i][3]
    /\ outcome[1] = "KILL_SWITCH_FAILED"
    /\ ~kill_switch_triggered

\* C8: a snapshot with PNL <= daily_stoploss and PNL >= daily_target takes the
\* stoploss branch: the outcome is STOPLOSS_BREACHED or KILL_SWITCH_FAILED, never
\* TARGET_ACHIEVED, orders are cancelled and positions squared off, and every
\* breach alert or confirmation sent carries the reason STOPLOSS.
C8_StoplossPrecedence ==
    (Evaluated /\ pnl <= daily_stoploss /\ pnl >= daily_target)
        => /\ outcome[1] \in {"STOPLOSS_BREACHED", "KILL_SWITCH_FAILED"}
           /\ Calls(trace, "cancel_all_pending_orders") = 1
           /\ Calls(trace, "square_off_all_positions") = 1
           /\ \A i \in Where(trace, "send_kill_switch_alert") : trace[i][2] = "STOPLOSS"
           /\ \A i \in Where(trace, "send_message") :
                  trace[i][2] = "KILL_SWITCH_ACTIVATED" => trace[i][3] = "STOPLOSS"
           /\ telegram(cfg) => Calls(trace, "send_kill_switch_alert") = 1

\* C8 witness: stoploss 2500 above target 2000, PNL between them, alert sent.
C8_Witness ==
    /\ Evaluated
    /\ pnl <= daily_stoploss /\ pnl >= daily_target
    /\ outcome[1] = "STOPLOSS_BREACHED"
    /\ Len(Alerts(trace)) = 1

\* C9: kill_switch_triggered is false as long as no engine exists, and no step
\* of check_and_manage_risk, trigger_kill_switch, monitor_risk or
\* send_periodic_pnl sets it back to false once it is true.
C9_KillSwitchTriggeredNeverReverts ==
    /\ [](~risk_manager => ~kill_switch_triggered)
    /\ [][kill_switch_triggered => kill_switch_triggered']_vars

\* C9 witness: a handler ran on an engine already triggered and left it triggered.
C9_Witness ==
    /\ risk_manager
    /\ op \in {"monitor_risk", "send_periodic_pnl"}
    /\ kst_before
    /\ kill_switch_triggered

\* the level a call leaves, for trailing enabled, A > 0 and 0 < t < 100
C10_Level ==
    (/\ cfg.ENABLE_TRAILING_STOPLOSS
     /\ cfg.TRAILING_STOPLOSS_ACTIVATE_PROFIT > 0
     /\ cfg.TRAILING_STOPLOSS_TRAIL_PERCENT.e = 0
     /\ cfg.TRAILING_STOPLOSS_TRAIL_PERCENT.m \in 1..99
     /\ Evaluated)
        => /\ pnl >= cfg.TRAILING_STOPLOSS_ACTIVATE_PROFIT
                => daily_stoploss * 100
                     = Max(sl_before * 100, pnl * (100 - cfg.TRAILING_STOPLOSS_TRAIL_PERCENT.m))
           /\ pnl < cfg.TRAILING_STOPLOSS_ACTIVATE_PROFIT => daily_stoploss = sl_before
           /\ (/\ cfg.TRAILING_STOPLOSS_ACTIVATE_PROFIT = R(1000)
               /\ cfg.TRAILING_STOPLOSS_TRAIL_PERCENT = Whole(10))
                => /\ pnl = R(500) => daily_stoploss = sl_before
                   /\ (pnl = R(1000) /\ sl_before < R(900)) => daily_stoploss = R(900)
                   /\ (pnl = R(1200) /\ sl_before = R(900)) => daily_stoploss = R(1080)
                   /\ (pnl = R(900) /\ sl_before = R(1080)) => daily_stoploss = R(1080)

\* C10 as stated: with trailing enabled, A > 0 and 0 < t < 100, a call with
\* PNL >= A leaves daily_stoploss = max(previous level, PNL * (1 - t/100)), a
\* call with PNL < A leaves it unchanged (A = 1000, t = 10: 500, 1000, 1200, 900
\* give unchanged, 900, 1080, 1080), and the trailing-update notification is
\* sent exactly in the calls that raise the level.
C10_AsStated ==
    /\ C10_Level
    /\ (cfg.ENABLE_TRAILING_STOPLOSS /\ Evaluated)
          => TrailingUpdates(trace) = (IF daily_stoploss > sl_before THEN 1 ELSE 0)

\* C10 amended: the same levels; the trailing-update notification is sent
\* exactly in the calls that raise the level while a Telegram notifier is
\* configured, and never without one.
C10_TrailingLevel ==
    /\ C10_Level
    /\ (cfg.ENABLE_TRAILING_STOPLOSS /\ Evaluated)
          => TrailingUpdates(trace)
               = (IF daily_stoploss > sl_before /\ telegram(cfg) THEN 1 ELSE 0)

\* C10 witness: the third call of the example, PNL 1200 on a level of 900,
\* raised the level to 1080 and sent the notification.
C10_Witness ==
    /\ cfg.ENABLE_TRAILING_STOPLOSS /\ telegram(cfg)
    /\ Evaluated
    /\ sl_before = R(900) /\ pnl = R(1200) /\ daily_stoploss = R(1080)
    /\ TrailingUpdates(trace) = 1

\* C11: the level starts at the configured DAILY_STOPLOSS and a step changes it
\* only in a call whose PNL has reached the trailing activation profit; so over
\* calls whose PNL never reaches it, the level stays the configured one.
C11_NoRatchetBelowActivation ==
    /\ [](~risk_manager => daily_stoploss = cfg.DAILY_STOPLOSS)
    /\ [][daily_stoploss' # daily_stoploss
            => /\ op' = "monitor_risk"
               /\ pnl' >= cfg.TRAILING_STOPLOSS_ACTIVATE_PROFIT]_vars

\* C11 witness: with trailing enabled, a scheduled tick that saw a profit of 500,
\* below the activation profit 1000, left the level at the configured value.
C11_Witness ==
    /\ cfg.ENABLE_TRAILING_STOPLOSS
    /\ pc = "run_pending"
    /\ Evaluated
    /\ pnl = R(500)
    /\ sl_before = cfg.DAILY_STOPLOSS /\ daily_stoploss = cfg.DAILY_STOPLOSS

\* C12: with ENABLE_TRAILING_STOPLOSS false, daily_stoploss is the configured
\* DAILY_STOPLOSS in every reachable state.
C12_TrailingDisabledLevelFixed ==
    ~cfg.ENABLE_TRAILING_STOPLOSS => daily_stoploss = cfg.DAILY_STOPLOSS

\* C12 witness: trailing disabled, a call saw a PNL above the activation profit
\* and the level is still the configured one.
C12_Witness ==
    /\ ~cfg.ENABLE_TRAILING_STOPLOSS
    /\ Evaluated
    /\ pnl >= cfg.TRAILING_STOPLOSS_ACTIVATE_PROFIT
    /\ daily_stoploss = cfg.DAILY_STOPLOSS

\* the snapshot fetch of the call failed (get_positions_pnl returned None)
FetchFailed ==
    /\ op = "monitor_risk"
    /\ Len(trace) >= 2
    /\ trace[2][1] = "return" /\ trace[2][2] = "get_positions_pnl" /\ ~trace[2][3]

\* what a failed fetch leaves: ERROR, no executor call, the engine as it was;
\* and a call entered with the flag false starts by fetching a snapshot
C13_Frame ==
    /\ FetchFailed
          => /\ outcome = <<"ERROR", "Failed to fetch PNL">>
             /\ \A i \in 1..Len(trace) : trace[i][1] \notin ExecutorEvents
             /\ daily_stoploss = sl_before
             /\ ~kst_before /\ ~kill_switch_triggered
    /\ (Called /\ ~kst_before)
          => trace # <<>> /\ trace[1] = <<"GET", "/positions">>

\* C13 as stated: when get_positions_pnl fails, check_and_manage_risk returns
\* ERROR, sends an error notification, makes no cancel, square-off or
\* kill-switch call and leaves daily_stoploss and kill_switch_triggered as they
\* were, so that the next tick is evaluated normally.
C13_AsStated ==
    /\ C13_Frame
    /\ FetchFailed => Calls(trace, "send_error_alert") = 1

\* C13 amended: the same, with the error notification sent once when a
\* Telegram notifier is configured and not at all when none is.
C13_FetchFailure ==
    /\ C13_Frame
    /\ FetchFailed => Calls(trace, "send_error_alert") = (IF telegram(cfg) THEN 1 ELSE 0)

\* C13 witness: a tick whose fetch failed after trailing had raised the level
\* to 1080: the error alert went out and the level is still 1080.
C13_Witness ==
    /\ telegram(cfg)
    /\ FetchFailed
    /\ Calls(trace, "send_error_alert") = 1
    /\ sl_before = R(1080) /\ daily_stoploss = R(1080)
    /\ ~kill_switch_triggered

\* C14: a call entered with kill_switch_triggered true returns
\* [KILL_SWITCH_ACTIVE, Success] at once: no fetch, no notification, no executor
\* call, daily_stoploss and the flag unchanged, whether the kill switch is
\* enabled or not.
C14_ShortCircuit ==
    (Called /\ kst_before)
        => /\ outcome = <<"KILL_SWITCH_ACTIVE", "Success">>
           /\ trace = <<>>
           /\ daily_stoploss = sl_before
           /\ kill_switch_triggered

\* C14 witness: with the kill switch disabled, a call on an engine that a
\* breach had made terminal was short-circuited.
C14_Witness ==
    /\ ~cfg.ENABLE_KILL_SWITCH
    /\ Called
    /\ kst_before
    /\ outcome[1] = "KILL_SWITCH_ACTIVE"
    /\ trace = <<>>

\* the place of the return event of a method called once
ReturnAt(t, name) == CHOOSE i \in Where(t, "return") : t[i][2] = name

\* the requests a method called once made: the events between its call and its return
RequestsOf(t, name) ==
    [k \in 1..(ReturnAt(t, name) - At(t, name) - 1) |-> t[At(t, name) + k]]

\* the positions of the snapshot that are open, in the snapshot's order
OpenPositions == SelectSeq(position_details, LAMBDA d : d.position_data.netQty # 0)

\* the closing order of a position: the opposite side, the whole quantity
ClosingOrder(d) ==
    <<"POST", "/orders", d.symbol,
      IF d.position_data.netQty > 0 THEN "SELL" ELSE "BUY",
      Abs(d.position_data.netQty), "MARKET">>

\* C15: square_off_all_positions places the closing order of every position
\* with nonzero net quantity, in the snapshot's order, whichever of the orders
\* fail; a failed order only makes the method return False.
C15_SquareOffAllAttemptsEvery ==
    StoplossHit
        => /\ Calls(trace, "square_off_all_positions") = 1
           /\ RequestsOf(trace, "square_off_all_positions")
                = [k \in 1..Len(OpenPositions) |-> ClosingOrder(OpenPositions[k])]

\* C15 witness: two open positions, square_off_all_positions returned False and
\* the closing orders of both are among its requests.
C15_Witness ==
    /\ StoplossHit
    /\ Len(OpenPositions) = 2
    /\ ~trace[ReturnAt(trace, "square_off_all_positions")][3]
    /\ Len(RequestsOf(trace, "square_off_all_positions")) = 2

\* a position the percent check applies to: open, with an average price
HasPercent(d) ==
    /\ d.position_data.netQty # 0
    /\ d.position_data.avg # NoAvg
    /\ d.position_data.avg # 0

\* percent >= T and percent <= -S, percent being total / (|netQty| * avg) * 100
TakeProfitMet(d) ==
    /\ HasPercent(d)
    /\ d.total * 100 >= cfg.POSITION_PERCENT_TAKE * Abs(d.position_data.netQty) * d.position_data.avg

PositionStoplossMet(d) ==
    /\ HasPercent(d)
    /\ d.total * 100 <= (0 - cfg.POSITION_PERCENT_STOPLOSS) * Abs(d.position_data.netQty) * d.position_data.avg

Snapshot == { position_details[i] : i \in 1..Len(position_details) }

\* the symbols square_off_position was called for
ExitedSymbols == { trace[i][2] : i \in Where(trace, "square_off_position") }

\* C16: with per-position take-profit enabled at a threshold T > 0, a call
\* invokes square_off_position, once each and with the position's closing order,
\* for exactly the positions whose percent is >= T or that meet the enabled
\* per-position stoploss; a position below T gets no single-position order.
C16_ExitsExactlyMarked ==
    (cfg.ENABLE_POSITION_PERCENT_TAKE /\ cfg.POSITION_PERCENT_TAKE > 0 /\ Evaluated)
        => /\ ExitedSymbols
                = { d.symbol : d \in { e \in Snapshot :
                        \/ TakeProfitMet(e)
                        \/ /\ cfg.ENABLE_POSITION_PERCENT_STOPLOSS
                           /\ cfg.POSITION_PERCENT_STOPLOSS > 0
                           /\ PositionStoplossMet(e) } }
           /\ Calls(trace, "square_off_position") = Cardinality(ExitedSymbols)
           /\ \A i \in Where(trace, "square_off_position") :
                 \E d \in Snapshot : d.symbol = trace[i][2] /\ trace[i + 1] = ClosingOrder(d)

\* C16 witness: threshold 5%, one position at 6% and a sibling at 0.25%:
\* square_off_position was called for the first only.
C16_Witness ==
    /\ cfg.ENABLE_POSITION_PERCENT_TAKE /\ cfg.POSITION_PERCENT_TAKE = 5
    /\ Evaluated
    /\ Len(position_details) = 2
    /\ TakeProfitMet(position_details[1])
    /\ HasPercent(position_details[2]) /\ ~TakeProfitMet(position_details[2])
    /\ ExitedSymbols = { position_details[1].symbol }

\* C17: whenever the per-position stoploss is enabled with a threshold S > 0,
\* every position with a percent at or below -S is flattened by the call,
\* whatever the per-position take-profit option is set to.  (The code tests the
\* stoploss only inside the take-profit block of line 680, so this fails when
\* take-profit is off.)
C17_AsStated ==
    (cfg.ENABLE_POSITION_PERCENT_STOPLOSS /\ cfg.POSITION_PERCENT_STOPLOSS > 0 /\ Evaluated)
        => \A d \in Snapshot :
              PositionStoplossMet(d)
                  => \/ d.symbol \in ExitedSymbols
                     \/ \E i \in 1..Len(trace) : trace[i] = ClosingOrder(d)

\* the returns of square_off_position, and the ones that reported a failure
ExitReturns == { i \in Where(trace, "return") : trace[i][2] = "square_off_position" }

FailedExits == { i \in ExitReturns : ~trace[i][3] }

\* the positions the per-position block marks for an exit
Marked ==
    { d \in Snapshot :
        /\ cfg.ENABLE_POSITION_PERCENT_TAKE /\ cfg.POSITION_PERCENT_TAKE > 0
        /\ \/ TakeProfitMet(d)
           \/ /\ cfg.ENABLE_POSITION_PERCENT_STOPLOSS
              /\ cfg.POSITION_PERCENT_STOPLOSS > 0
              /\ PositionStoplossMet(d) }

\* what the account-level check returns for this PNL against the limits when
\* every per-position exit succeeded
AccountLevelStatus ==
    IF pnl > daily_stoploss /\ pnl < daily_target THEN "WITHIN_LIMITS"
    ELSE IF \E i \in TriggerReturns(trace) : ~trace[i][3] THEN "KILL_SWITCH_FAILED"
    ELSE IF pnl <= daily_stoploss THEN "STOPLOSS_BREACHED"
    ELSE "TARGET_ACHIEVED"

\* C18: a per-position exit that fails does not stop the call: every marked
\* position is still attempted, each attempt returns, and the account-level
\* check runs and returns what it returns when every exit succeeded.
C18_FailedExitDoesNotStop ==
    (Evaluated /\ FailedExits # {})
        => /\ \A d \in Marked : d.symbol \in ExitedSymbols
           /\ Cardinality(ExitReturns) = Calls(trace, "square_off_position")
           /\ Called
           /\ outcome[1] = AccountLevelStatus
           /\ pnl <= daily_stoploss
                 => /\ Calls(trace, "cancel_all_pending_orders") = 1
                    /\ Calls(trace, "square_off_all_positions") = 1

\* C18 witness: two positions were marked, the exit of the first failed, the
\* second was attempted after it, and the call returned WITHIN_LIMITS.
C18_Witness ==
    /\ Evaluated
    /\ Cardinality(Marked) = 2
    /\ \E i \in FailedExits :
          /\ \A j \in ExitReturns : j >= i
          /\ \E k \in Where(trace, "square_off_position") : k > i
    /\ outcome[1] = "WITHIN_LIMITS"

\* a notifier call was attempted during the last handler
Notified == sent # <<>>

\* the executor calls a call of check_and_manage_risk makes for this snapshot
\* and these limits
ExecutorCallsAsDecided ==
    /\ ExitedSymbols = { d.symbol : d \in Marked }
    /\ Calls(trace, "square_off_position") = Cardinality(Marked)
    /\ Calls(trace, "cancel_all_pending_orders") = (IF pnl <= daily_stoploss THEN 1 ELSE 0)
    /\ Calls(trace, "square_off_all_positions") = (IF pnl <= daily_stoploss THEN 1 ELSE 0)
    /\ Calls(trace, "trigger_kill_switch")
          = (IF cfg.ENABLE_KILL_SWITCH /\ (pnl <= daily_stoploss \/ pnl >= daily_target)
             THEN 1 ELSE 0)

\* the level and the flag such a call leaves
EngineStateAsDecided ==
    /\ IF cfg.ENABLE_TRAILING_STOPLOSS /\ pnl >= cfg.TRAILING_STOPLOSS_ACTIVATE_PROFIT
       THEN IF cfg.TRAILING_STOPLOSS_TRAIL_PERCENT.e = 0
            THEN daily_stoploss * 100
                    = Max(sl_before * 100, pnl * (100 - cfg.TRAILING_STOPLOSS_TRAIL_PERCENT.m))
            ELSE daily_stoploss = Max(sl_before, pnl)
       ELSE daily_stoploss = sl_before
    /\ kill_switch_triggered
          = (/\ pnl <= daily_stoploss \/ pnl >= daily_target
             /\ cfg.ENABLE_KILL_SWITCH => \E i \in TriggerReturns(trace) : trace[i][3])

\* C19: a notifier call that fails never aborts the engine.  Whenever a call
\* of check_and_manage_risk attempted a notification, whether the sends
\* returned True or False, the call returns the status its snapshot and limits
\* decide, makes the executor calls they decide and leaves the level and the
\* flag they decide: nothing of it depends on what the sends returned.
C19_NotifierNeverAborts ==
    (Called /\ Notified)
        => /\ FetchFailed
                => /\ outcome[1] = "ERROR"
                   /\ \A i \in 1..Len(trace) : trace[i][1] \notin ExecutorEvents
                   /\ daily_stoploss = sl_before
                   /\ kill_switch_triggered = kst_before
           /\ Evaluated
                => /\ outcome[1] = AccountLevelStatus
                   /\ ExecutorCallsAsDecided
                   /\ EngineStateAsDecided
           /\ FetchFailed \/ Evaluated

\* C19 witness: every send of a call failed - the stoploss alert among them -
\* and the call still cancelled the orders, squared off, triggered the kill
\* switch and returned STOPLOSS_BREACHED with the flag set.
C19_Witness ==
    /\ Called /\ Evaluated
    /\ Notified /\ \A k \in 1..Len(sent) : ~sent[k]
    /\ Calls(trace, "send_kill_switch_alert") = 1
    /\ Calls(trace, "square_off_all_positions") = 1
    /\ Calls(trace, "trigger_kill_switch") = 1
    /\ outcome[1] = "STOPLOSS_BREACHED"
    /\ kill_switch_triggered

\* the statuses check_and_manage_risk returns
Statuses ==
    {"WITHIN_LIMITS", "STOPLOSS_BREACHED", "TARGET_ACHIEVED",
     "KILL_SWITCH_FAILED", "KILL_SWITCH_ACTIVE", "ERROR"}

\* C20: no failure of an external call escapes check_and_manage_risk: every
\* call that was entered returned, and returned one of WITHIN_LIMITS,
\* STOPLOSS_BREACHED, TARGET_ACHIEVED, KILL_SWITCH_FAILED, KILL_SWITCH_ACTIVE
\* and ERROR; a method of the executor that was called returned as well.
C20_AlwaysReturnsStatus ==
    (op = "monitor_risk" /\ is_market_hours(cfg, now))
        => /\ Called
           /\ outcome[1] \in Statuses
           /\ \A name \in {"cancel_all_pending_orders", "square_off_all_positions",
                           "trigger_kill_switch"} :
                 Calls(trace, name)
                    = Cardinality({ i \in Where(trace, "return") : trace[i][2] = name })

\* C20 witness: the request for the order list, a closing order, the kill
\* switch request and the sends all failed in one call, and the call returned
\* KILL_SWITCH_FAILED.
C20_Witness ==
    /\ Called /\ StoplossHit
    /\ ~trace[ReturnAt(trace, "cancel_all_pending_orders")][3]
    /\ ~trace[ReturnAt(trace, "square_off_all_positions")][3]
    /\ \E i \in TriggerReturns(trace) : ~trace[i][3]
    /\ sent # <<>> /\ ~sent[1]
    /\ outcome[1] = "KILL_SWITCH_FAILED"

----------------------------------------------------------------------------
(* Properties of the executor methods *)

\* a method applied on its own has returned
Returned(name) == method.name = name /\ method.returned

\* the status strings of KillSwitchStatuses that contain "activated" in some casing
ActivatedInSomeCase == {"ACTIVATED", "activated"}

\* C21: trigger_kill_switch returns success, and sets kill_switch_triggered,
\* exactly when the broker answers 200 with a status string that contains
\* "activated" in any casing, and then returns that string; every other answer
\* gives [False, detail] and leaves kill_switch_triggered as it was.
C21_KillSwitchActivation ==
    Returned("trigger_kill_switch")
        => /\ method.result[1]
                = (/\ method.input.status = "200"
                   /\ method.input.killSwitchStatus \in ActivatedInSomeCase)
           /\ method.result[1] => /\ kill_switch_triggered
                                  /\ method.result[2] = method.input.killSwitchStatus
           /\ ~method.result[1] => kill_switch_triggered = kst_before
           /\ trace = << <<"POST", "/killSwitch">> >>

\* C21 witness: the broker answered 200 with the status in upper case to an
\* engine not yet triggered; the method reported success and set the flag.
C21_Witness ==
    /\ Returned("trigger_kill_switch")
    /\ method.input = [status |-> "200", killSwitchStatus |-> "ACTIVATED"]
    /\ ~kst_before
    /\ method.result = <<TRUE, "ACTIVATED">>
    /\ kill_switch_triggered

\* C27: square_off_position places no order and reports success for a position
\* with net quantity 0; for any other it places exactly one MARKET order, SELL
\* for a long and BUY for a short position, for the absolute net quantity, and
\* reports success exactly when the broker answers 200.
C27_SquareOffPosition ==
    Returned("square_off_position")
        => LET pos == method.input.pos
               q   == pos.position_data.netQty
           IN  IF q = 0
               THEN method.result = TRUE /\ trace = <<>>
               ELSE /\ trace = << <<"POST", "/orders", pos.symbol,
                                    IF q > 0 THEN "SELL" ELSE "BUY",
                                    IF q > 0 THEN q ELSE 0 - q, "MARKET">> >>
                    /\ method.result = (method.input.res = "200")

\* C27 witness: a short position of 10 was closed by one BUY order for 10 that
\* the broker accepted.
C27_Witness ==
    /\ Returned("square_off_position")
    /\ method.input.pos.position_data.netQty = -10
    /\ method.input.res = "200"
    /\ trace = << <<"POST", "/orders", method.input.pos.symbol, "BUY", 10, "MARKET">> >>
    /\ method.result = TRUE

\* the orders of the fetched list that are to be cancelled, by place in the list
Cancelable ==
    { i \in DOMAIN method.input.orders : method.input.orders[i].orderStatus \in {"PENDING", "TRANSIT"} }

\* the cancel requests sent, in order
Deletes == SelectSeq(trace, LAMBDA e : e[1] = "DELETE")

\* the place in the fetched list of the order with this id
Listed(id) == CHOOSE i \in DOMAIN method.input.orders : method.input.orders[i].orderId = id

\* C28: cancel_all_pending_orders fetches the order list and sends one cancel
\* request for each order of it whose status is PENDING or TRANSIT, in list
\* order, and for no other order, whether or not an earlier cancel failed; it
\* returns True exactly when the list was fetched and no cancel failed, so also
\* when there was nothing to cancel, and False when the list was not fetched.
C28_CancelAllPendingOrders ==
    Returned("cancel_all_pending_orders")
        => /\ Head(trace) = <<"GET", "/orders">>
           /\ Len(trace) = 1 + Len(Deletes)
           /\ IF method.input.status # "200"
              THEN method.result = FALSE /\ Deletes = <<>>
              ELSE /\ Len(Deletes) = Cardinality(Cancelable)
                   /\ { Deletes[k][2] : k \in DOMAIN Deletes }
                         = { method.input.orders[i].orderId : i \in Cancelable }
                   /\ \A k, l \in DOMAIN Deletes :
                         k < l => Listed(Deletes[k][2]) < Listed(Deletes[l][2])
                   /\ method.result
                         = (\A i \in Cancelable : method.input.orders[i].cancel = "200")

\* C28 witness: of two pending orders the first could not be cancelled; the
\* second was cancelled all the same, and the method returned False.
C28_Witness ==
    /\ Returned("cancel_all_pending_orders")
    /\ method.input.status = "200"
    /\ Len(method.input.orders) = 2
    /\ method.input.orders[1].orderStatus = "PENDING" /\ method.input.orders[1].cancel = "400"
    /\ method.input.orders[2].orderStatus = "TRANSIT" /\ method.input.orders[2].cancel = "200"
    /\ trace = << <<"GET", "/orders">>, <<"DELETE", "O1">>, <<"DELETE", "O2">> >>
    /\ method.result = FALSE


\* the status the entry of a position is to carry
StatusOf(row) ==
    IF row.unrealizedProfit # 0 THEN "OPEN"
    ELSE IF row.realizedProfit > 0 THEN "CLOSED"
    ELSE ""

\* C29: _get_positions_for_telegram returns one entry per position of the
\* broker's response, in the order of the response, each with the symbol and
\* with a status: OPEN when the unrealized profit is not zero, CLOSED when it
\* is zero and the realized profit is positive, the empty string otherwise.
C29_AsStated ==
    (Returned("_get_positions_for_telegram") /\ method.result.ok)
        => /\ Len(method.result.positions) = Len(method.input.data)
           /\ \A i \in DOMAIN method.input.data :
                 LET entry == method.result.positions[i]
                 IN  /\ entry.symbol = method.input.data[i].tradingSymbol
                     /\ "status" \in DOMAIN entry
                     /\ entry.status = StatusOf(method.input.data[i])


----------------------------------------------------------------------------
(* Properties of start-up and of the driver *)

\* a credential the notifier can use: set, and not the placeholder text
Usable(credential) == credential \notin {None, "YOUR_BOT_TOKEN", "YOUR_CHAT_ID"}

\* the faults validation is to fail on
Faulty(c) ==
    \/ c.DAILY_TARGET <= 0
    \/ c.CHECK_INTERVAL_SECONDS < 1
    \/ c.ENABLE_TRAILING_STOPLOSS /\ c.TRAILING_STOPLOSS_ACTIVATE_PROFIT <= 0
    \/ c.ENABLE_TRAILING_STOPLOSS
          /\ ~(IsPositive(c.TRAILING_STOPLOSS_TRAIL_PERCENT)
                  /\ BelowHundred(c.TRAILING_STOPLOSS_TRAIL_PERCENT))
    \/ c.TELEGRAM_ENABLED /\ ~(Usable(c.TELEGRAM_BOT_TOKEN) /\ Usable(c.TELEGRAM_CHAT_ID))

\* main() has neither evaluated nor scheduled anything
NothingDone == op = "none" /\ trace = <<>> /\ jobs = {} /\ ~risk_manager

\* C22: with a non-positive target, a check interval below 1, trailing enabled
\* with a non-positive activation profit or a trail percent outside (0,100), or
\* the notifier enabled without its bot token or chat id, validate_config
\* reports an error and main exits with code 1 before it evaluates or schedules.
C22_AsStated ==
    Faulty(cfg) => /\ validate_config(cfg) # {}
                   /\ pc \in {"start", "exit1"}
                   /\ NothingDone

\* the stoploss levels send_periodic_pnl put in its PNL message
ReportedStoploss == { trace[i][3] : i \in Where(trace, "send_pnl_update") }

\* C23: the loop runs the handlers one at a time.  No handler is called while
\* another is running, so send_periodic_pnl reports the stoploss level as the
\* last finished check left it; a job is in a pass of run_pending at most once;
\* and a job whose handler overran is called again no sooner than one interval
\* after that call ended, the ticks missed meanwhile being dropped.
C23_OneCallAtATime ==
    /\ Len(scheduler.active) <= 1
    /\ \A i, k \in DOMAIN batch : batch[i] = batch[k] => i = k
    /\ \A j \in JobNames :
          scheduler.active = <<j>>
              => scheduler.clock >= scheduler.finished[j] + Interval(cfg, j)
    /\ op = "send_periodic_pnl" => ReportedStoploss \subseteq {daily_stoploss}

\* C23 witness: monitor_risk is called again after its previous call took
\* longer than the check interval, in a pass of run_pending in which
\* send_periodic_pnl was due as well and has just sent its message.
C23_Witness ==
    /\ scheduler.active = <<"monitor_risk">>
    /\ scheduler.took["monitor_risk"] = Overrun
    /\ Overrun > Interval(cfg, "monitor_risk")
    /\ op = "send_periodic_pnl"
    /\ ReportedStoploss # {}

\* this step is run_pending running the handler of job j
RunsJob(j) == pc = "run_pending" /\ batch # <<>> /\ Head(batch) = j /\ batch' = Tail(batch)

\* only a step in which check_and_manage_risk is called changes the engine's state
OnlyChecksChangeState ==
    /\ daily_target' = daily_target
    /\ (daily_stoploss' # daily_stoploss \/ kill_switch_triggered' # kill_switch_triggered)
          => op' = "monitor_risk" /\ outcome' # NoOutcome

\* monitor_risk clears the schedule exactly when the status returned is a breach
MonitorDecidesFromOutcome ==
    RunsJob("monitor_risk") => jobs' = IF outcome'[1] \in BreachStatuses THEN {} ELSE jobs

\* C24 as stated: only the engine changes daily_stoploss, daily_target and
\* kill_switch_triggered, and the handlers decide from returned outcomes alone;
\* send_periodic_pnl, which is returned none, then never cancels its job.
C24_AsStated ==
    [][ /\ OnlyChecksChangeState
        /\ MonitorDecidesFromOutcome
        /\ RunsJob("send_periodic_pnl") => jobs' = jobs ]_vars

\* C24: only a call of check_and_manage_risk changes daily_stoploss,
\* daily_target or kill_switch_triggered, and monitor_risk decides from the
\* status returned; send_periodic_pnl, within market hours, reads
\* kill_switch_triggered itself and cancels its own job when it is set.
C24_EngineStateFrame ==
    [][ /\ OnlyChecksChangeState
        /\ MonitorDecidesFromOutcome
        /\ RunsJob("send_periodic_pnl")
              => jobs' = IF is_market_hours(cfg, now) /\ kill_switch_triggered
                         THEN jobs \ {"send_periodic_pnl"} ELSE jobs ]_vars

\* C24 witness: send_periodic_pnl found the flag set by the initial check and
\* cancelled its own job, sending nothing, while monitor_risk stays scheduled.
C24_Witness ==
    /\ op = "send_periodic_pnl"
    /\ kst_before /\ kill_switch_triggered
    /\ trace = <<>>
    /\ jobs = {"monitor_risk"}

\* this step is a call of a handler, by main() itself or by run_pending
CallsMonitorRisk == (pc = "initial_check" /\ pc' = "schedule") \/ RunsJob("monitor_risk")

\* the clock reads a time of day in [MARKET_START_TIME, MARKET_END_TIME]
InsideWindow ==
    /\ (cfg.MARKET_START_TIME[1] * 60 + cfg.MARKET_START_TIME[2]) * 60 <= Seconds(now)
    /\ Seconds(now) <= (cfg.MARKET_END_TIME[1] * 60 + cfg.MARKET_END_TIME[2]) * 60

\* C25: a handler called at a time outside [MARKET_START_TIME, MARKET_END_TIME]
\* sends no request, does not call the engine, leaves the engine, its state and
\* the schedule as they were; at any time inside the window, both ends
\* included, monitor_risk does call check_and_manage_risk.
C25_OnlyInMarketHours ==
    [][ /\ (CallsMonitorRisk \/ RunsJob("send_periodic_pnl")) /\ ~InsideWindow
            => /\ trace' = <<>>
               /\ outcome' = NoOutcome
               /\ UNCHANGED <<risk_manager, engineVars, jobs>>
        /\ CallsMonitorRisk /\ InsideWindow
            => /\ op' = "monitor_risk"
               /\ outcome' # NoOutcome
               /\ risk_manager' ]_vars

\* C25 witness: the scheduled monitor_risk ran one second after the close,
\* did nothing and is still scheduled.
C25_Witness ==
    /\ op = "monitor_risk"
    /\ pc = "run_pending"
    /\ now = <<15, 30, 1>>
    /\ outcome = NoOutcome
    /\ trace = <<>>
    /\ "monitor_risk" \in jobs

----------------------------------------------------------------------------
(* The target branch *)

\* with the kill switch enabled: one call of trigger_kill_switch, and its
\* success gives [TARGET_ACHIEVED, broker status]
C26_Enabled ==
    (cfg.ENABLE_KILL_SWITCH /\ TargetHit)
        => /\ Calls(trace, "trigger_kill_switch") = 1
           /\ Cardinality(TriggerReturns(trace)) = 1
           /\ \A i \in TriggerReturns(trace) :
                 trace[i][3] => outcome = <<"TARGET_ACHIEVED", trace[i][4]>>

\* C26 as stated: with the kill switch disabled, a call with PNL >= daily_target
\* and PNL > daily_stoploss returns [TARGET_ACHIEVED, "Kill switch not enabled"],
\* sets kill_switch_triggered, sends the alert (TARGET, pnl, daily_target, False)
\* and never calls trigger_kill_switch; with it enabled, trigger_kill_switch is
\* called once and its success gives [TARGET_ACHIEVED, broker status].
C26_AsStated ==
    /\ (~cfg.ENABLE_KILL_SWITCH /\ TargetHit)
          => /\ outcome = <<"TARGET_ACHIEVED", "Kill switch not enabled">>
             /\ kill_switch_triggered
             /\ Alerts(trace) = << <<"send_kill_switch_alert", "TARGET", pnl, daily_target, FALSE>> >>
             /\ Calls(trace, "trigger_kill_switch") = 0
    /\ C26_Enabled

\* C26 amended: as C26, except that the alert (TARGET, pnl, daily_target, False)
\* is sent once when a Telegram notifier is configured and not at all when
\* none is.
C26_TargetAchieved ==
    /\ (~cfg.ENABLE_KILL_SWITCH /\ TargetHit)
          => /\ outcome = <<"TARGET_ACHIEVED", "Kill switch not enabled">>
             /\ kill_switch_triggered
             /\ Alerts(trace) = IF telegram(cfg)
                                THEN << <<"send_kill_switch_alert", "TARGET", pnl, daily_target, FALSE>> >>
                                ELSE <<>>
             /\ Calls(trace, "trigger_kill_switch") = 0
    /\ C26_Enabled

\* C26 witness: target 2000, kill switch enabled, PNL 2500 from an open
\* position: the activation succeeded and its status was returned.
C26_Witness ==
    /\ cfg.ENABLE_KILL_SWITCH
    /\ TargetHit
    /\ daily_target = R(2000) /\ pnl = R(2500)
    /\ \E i \in TriggerReturns(trace) : trace[i][3] /\ outcome = <<"TARGET_ACHIEVED", trace[i][4]>>
    /\ kill_switch_triggered

----------------------------------------------------------------------------
(* The breach check after the trailing ratchet *)

\* C30: once the trailing ratchet has raised the stoploss level above the
\* configured DAILY_STOPLOSS, a call whose PNL is at or below the level it
\* finds takes the stoploss branch: it cancels and squares off and returns
\* STOPLOSS_BREACHED or KILL_SWITCH_FAILED, also when that PNL is positive and
\* above the configured DAILY_STOPLOSS; the level itself stays.
C30_BreachAtTrailedLevel ==
    (Evaluated /\ sl_before > cfg.DAILY_STOPLOSS /\ pnl <= sl_before)
        => /\ outcome[1] \in {"STOPLOSS_BREACHED", "KILL_SWITCH_FAILED"}
           /\ Calls(trace, "cancel_all_pending_orders") = 1
           /\ Calls(trace, "square_off_all_positions") = 1
           /\ daily_stoploss = sl_before

\* C30 witness: the example.  A call at PNL 1200 with a trail of 10% left the
\* level at 1080; the next call, at PNL 900, above the configured -1000,
\* returned STOPLOSS_BREACHED.
C30_Witness ==
    /\ cfg.ENABLE_TRAILING_STOPLOSS /\ cfg.TRAILING_STOPLOSS_TRAIL_PERCENT = Whole(10)
    /\ cfg.DAILY_STOPLOSS = R(-1000)
    /\ Evaluated
    /\ sl_before = R(1080) /\ pnl = R(900)
    /\ outcome[1] = "STOPLOSS_BREACHED"
    /\ kill_switch_triggered

----------------------------------------------------------------------------
(* Retries and what the driver does with a status *)

\* the snapshot fetches of get_positions_pnl in the last handler
SnapshotFetches ==
    Cardinality({ i \in Where(trace, "return") : trace[i][2] = "get_positions_pnl" })

\* C31: one call of check_and_manage_risk fetches the snapshot it decides on at
\* most once and calls cancel_all_pending_orders, square_off_all_positions and
\* trigger_kill_switch at most once each, the broker's kill-switch request
\* included; trigger_kill_switch is called, after a failure as at any time,
\* only in a call whose own snapshot is in breach.
C31_NoRetryWithinCall ==
    op = "monitor_risk"
        => /\ SnapshotFetches <= 1
           /\ Calls(trace, "cancel_all_pending_orders") <= 1
           /\ Calls(trace, "square_off_all_positions") <= 1
           /\ Calls(trace, "trigger_kill_switch") <= 1
           /\ Cardinality({ i \in Where(trace, "POST") : trace[i][2] = "/killSwitch" }) <= 1
           /\ Calls(trace, "trigger_kill_switch") = 1 => (StoplossHit \/ TargetHit)

\* C31 witness: the check before this one returned KILL_SWITCH_FAILED; this
\* one found the PNL at or below the stoploss again, called trigger_kill_switch
\* once more, and that call succeeded.
C31_Witness ==
    /\ last_failed
    /\ StoplossHit
    /\ Calls(trace, "trigger_kill_switch") = 1
    /\ outcome[1] = "STOPLOSS_BREACHED"
    /\ kill_switch_triggered

\* the statuses on which monitor_risk keeps the schedule
Continuing == {"WITHIN_LIMITS", "ERROR", "KILL_SWITCH_FAILED", "KILL_SWITCH_ACTIVE"}

\* the driver's alert of a failed activation closes the handler's record
FailureAlertSent ==
    /\ trace' # <<>>
    /\ trace'[Len(trace')][1] = "send_error_alert"
    /\ trace'[Len(trace')][2] = "Kill switch activation FAILED!"

\* what the scheduled monitor_risk does with the schedule
ScheduleFollowsStatus ==
    /\ outcome'[1] \in Continuing \cup {"NONE"} => jobs' = jobs
    /\ outcome'[1] \in BreachStatuses => jobs' = {}

\* C33 as stated: after WITHIN_LIMITS, ERROR, KILL_SWITCH_FAILED or
\* KILL_SWITCH_ACTIVE the scheduled monitor_risk leaves every job scheduled,
\* after KILL_SWITCH_FAILED it also sends an error alert, and after
\* STOPLOSS_BREACHED or TARGET_ACHIEVED it clears the schedule.
C33_AsStated ==
    [][ RunsJob("monitor_risk")
          => /\ ScheduleFollowsStatus
             /\ outcome'[1] = "KILL_SWITCH_FAILED" => FailureAlertSent ]_vars

\* C33 amended: as C33, except that the error alert after KILL_SWITCH_FAILED is
\* sent when a Telegram notifier is configured and not when none is.
C33_DriverFollowsStatus ==
    [][ RunsJob("monitor_risk")
          => /\ ScheduleFollowsStatus
             /\ outcome'[1] = "KILL_SWITCH_FAILED" => (FailureAlertSent <=> telegram(cfg))
             /\ outcome'[1] # "KILL_SWITCH_FAILED"
                   => \A i \in Where(trace', "send_error_alert") :
                         trace'[i][2] # "Kill switch activation FAILED!" ]_vars

\* C33 witness: the scheduled monitor_risk got KILL_SWITCH_FAILED, sent the
\* error alert and is still scheduled.
C33_Witness ==
    /\ op = "monitor_risk" /\ pc = "run_pending"
    /\ outcome[1] = "KILL_SWITCH_FAILED"
    /\ telegram(cfg)
    /\ trace[Len(trace)] = <<"send_error_alert", "Kill switch activation FAILED!">>
    /\ "monitor_risk" \in jobs

----------------------------------------------------------------------------
(* Within limits *)

\* the snapshot was fetched and its PNL lies strictly between the stoploss
\* level left by the ratchet and the target
StrictlyInside == Evaluated /\ daily_stoploss < pnl /\ pnl < daily_target

\* C34: a call of check_and_manage_risk returns WITHIN_LIMITS exactly when the
\* snapshot was fetched and daily_stoploss (after the ratchet) < PNL <
\* daily_target; such a call makes no call of cancel_all_pending_orders,
\* square_off_all_positions or trigger_kill_switch, sends no kill-switch
\* request, and kill_switch_triggered is false before and after it.
C34_WithinLimits ==
    Called
        => /\ outcome[1] = "WITHIN_LIMITS" <=> StrictlyInside
           /\ outcome[1] = "WITHIN_LIMITS"
                => /\ Calls(trace, "cancel_all_pending_orders") = 0
                   /\ Calls(trace, "square_off_all_positions") = 0
                   /\ Calls(trace, "trigger_kill_switch") = 0
                   /\ \A i \in Where(trace, "POST") : trace[i][2] # "/killSwitch"
                   /\ \A i \in Where(trace, "DELETE") : FALSE
                   /\ ~kst_before
                   /\ ~kill_switch_triggered

\* C34 witness: a call within limits that closed a position by its percent
\* check and still made none of the account-level calls.
C34_Witness ==
    /\ Called
    /\ outcome[1] = "WITHIN_LIMITS"
    /\ StrictlyInside
    /\ Calls(trace, "square_off_position") >= 1
    /\ ~kill_switch_triggered

----------------------------------------------------------------------------
(* Positions the percent check skips *)

\* the per-position block was applied to a snapshot and returned
PercentChecked == method.name = "per_position_checks" /\ method.returned

\* lines 692, 709 and 718: zero net quantity, no or zero average price, zero
\* invested value
SkippedByPercentCheck(d) ==
    \/ d.position_data.netQty = 0
    \/ d.position_data.avg = NoAvg
    \/ d.position_data.avg = 0
    \/ Abs(d.position_data.netQty) * d.position_data.avg = 0

\* the positions positions_to_square holds
MarkedPositions == { method.result[k].pos : k \in 1..Len(method.result) }

\* C35: in the per-position checks a position with zero net quantity, with no
\* or a zero average price, or with zero invested value is never marked for
\* exit, never passed to square_off_position and gets no order; every other
\* position of the snapshot, before or after a skipped one, is still evaluated:
\* it is exited exactly when it meets the take-profit threshold or the enabled
\* per-position stoploss, and the block returns.
C35_SkippedPositions ==
    (PercentChecked /\ cfg.ENABLE_POSITION_PERCENT_TAKE /\ cfg.POSITION_PERCENT_TAKE > 0)
        => \A i \in 1..Len(method.input.details) :
              LET d == method.input.details[i]
              IN  /\ SkippedByPercentCheck(d)
                      => /\ d \notin MarkedPositions
                         /\ d.symbol \notin ExitedSymbols
                         /\ \A j \in Where(trace, "POST") : trace[j][3] # d.symbol
                  /\ ~SkippedByPercentCheck(d)
                      => (d.symbol \in ExitedSymbols
                            <=> \/ TakeProfitMet(d)
                                \/ /\ cfg.ENABLE_POSITION_PERCENT_STOPLOSS
                                   /\ cfg.POSITION_PERCENT_STOPLOSS > 0
                                   /\ PositionStoplossMet(d))

\* C35 witness: a snapshot whose first position has a zero average price and
\* whose second is at 6%: the first is skipped, the second exited.
C35_Witness ==
    /\ PercentChecked
    /\ cfg.ENABLE_POSITION_PERCENT_TAKE
    /\ Len(method.input.details) = 2
    /\ method.input.details[1].position_data.netQty # 0
    /\ method.input.details[1].position_data.avg = 0
    /\ TakeProfitMet(method.input.details[2])
    /\ ExitedSymbols = { method.input.details[2].symbol }

----------------------------------------------------------------------------
(* Per-check and periodic PNL updates *)

\* the last handler was a check that sent the per-check PNL update (line 676)
PerCheckUpdate == op = "monitor_risk" /\ Where(trace, "send_pnl_update") # {}

\* the last handler was send_periodic_pnl and it sent its update (line 987)
PeriodicUpdate == op = "send_periodic_pnl" /\ Where(trace, "send_pnl_update") # {}

\* C36: a check sends the per-check PNL update only when a notifier is present,
\* EFFECTIVE_SEND_PNL_UPDATES is true and SEND_ONLY_ALERTS is false, and at
\* most once; EFFECTIVE_SEND_PNL_UPDATES is false whenever
\* TELEGRAM_PNL_INTERVAL_SECONDS > 0, and the periodic update is sent only with
\* such an interval, so a run in which the periodic job is scheduled or has
\* sent an update has no check that sends a per-check update.
C36_PerCheckUpdateOnlyWhenEffective ==
    /\ PerCheckUpdate
          => /\ telegram(cfg)
             /\ EFFECTIVE_SEND_PNL_UPDATES(cfg)
             /\ cfg.SEND_PNL_UPDATES
             /\ ~cfg.SEND_ONLY_ALERTS
             /\ cfg.TELEGRAM_PNL_INTERVAL_SECONDS <= 0
             /\ "send_periodic_pnl" \notin jobs
             /\ Calls(trace, "send_pnl_update") = 1
    /\ PeriodicUpdate
          => /\ telegram(cfg)
             /\ cfg.TELEGRAM_PNL_INTERVAL_SECONDS > 0
             /\ ~EFFECTIVE_SEND_PNL_UPDATES(cfg)
    /\ "send_periodic_pnl" \in jobs => ~PerCheckUpdate

\* C36 witness: a scheduled check, with no periodic job, sent the per-check
\* PNL update.
C36_Witness ==
    /\ PerCheckUpdate
    /\ pc = "run_pending"
    /\ Evaluated
    /\ cfg.SEND_PNL_UPDATES /\ ~cfg.SEND_ONLY_ALERTS
    /\ cfg.TELEGRAM_PNL_INTERVAL_SECONDS = 0

----------------------------------------------------------------------------
(* Orders per position in one call *)

\* the closing orders one call of check_and_manage_risk requested for a symbol
OrdersFor(sym) == { i \in Where(trace, "POST") : trace[i][2] = "/orders" /\ trace[i][3] = sym }

\* C37: within one call of check_and_manage_risk no position receives more than
\* one closing market order.  (square_off_all_positions of line 791 is given
\* the position_details fetched at line 631, so a position the per-position
\* check has already closed is ordered a second time.)
C37_AsStated ==
    Called => \A d \in Snapshot : Cardinality(OrdersFor(d.symbol)) <= 1

----------------------------------------------------------------------------
(* Outcome and flag *)

\* the last call of check_and_manage_risk set kill_switch_triggered
FlagSetByCall == ~kst_before /\ kill_switch_triggered

\* C38: a call of check_and_manage_risk returns STOPLOSS_BREACHED or
\* TARGET_ACHIEVED exactly when that call changes kill_switch_triggered from
\* false to true, and kill_switch_triggered is false after every call that
\* returns WITHIN_LIMITS, ERROR or KILL_SWITCH_FAILED.
C38_OutcomeAndFlagAgree ==
    Called
        => /\ outcome[1] \in BreachStatuses <=> FlagSetByCall
           /\ outcome[1] \in {"WITHIN_LIMITS", "ERROR", "KILL_SWITCH_FAILED"}
                => ~kill_switch_triggered /\ ~kst_before
           /\ outcome[1] = "KILL_SWITCH_ACTIVE" <=> kst_before

\* C38 witness: with the kill switch enabled the broker confirmed the
\* activation at the target: the call set the flag and returned TARGET_ACHIEVED.
C38_Witness ==
    /\ Called
    /\ cfg.ENABLE_KILL_SWITCH
    /\ TargetHit
    /\ outcome[1] = "TARGET_ACHIEVED"
    /\ FlagSetByCall
    /\ Calls(trace, "trigger_kill_switch") = 1

----------------------------------------------------------------------------
(* The ratchet and the breach test of the same call *)

\* trailing as validate_config accepts it (lines 1033-1038)
ValidTrailing ==
    /\ cfg.ENABLE_TRAILING_STOPLOSS
    /\ cfg.TRAILING_STOPLOSS_ACTIVATE_PROFIT > 0
    /\ IsPositive(cfg.TRAILING_STOPLOSS_TRAIL_PERCENT)
    /\ BelowHundred(cfg.TRAILING_STOPLOSS_TRAIL_PERCENT)

\* the last call raised daily_stoploss
RatchetRaised == Evaluated /\ daily_stoploss > sl_before

\* the call left the level below its PNL and did not take the stoploss branch
BelowPnlAndNoBreach ==
    /\ daily_stoploss < pnl
    /\ outcome[1] \in {"WITHIN_LIMITS", "TARGET_ACHIEVED", "KILL_SWITCH_FAILED"}
    /\ Calls(trace, "cancel_all_pending_orders") = 0
    /\ Calls(trace, "square_off_all_positions") = 0
    /\ \A i \in Where(trace, "send_kill_switch_alert") : trace[i][2] # "STOPLOSS"

\* C39 as stated: with trailing configured validly (activation profit > 0,
\* trail percent in (0, 100)) a call in which the ratchet raises
\* daily_stoploss leaves the level strictly below its PNL and does not take
\* the stoploss branch.
C39_AsStated == (ValidTrailing /\ RatchetRaised) => BelowPnlAndNoBreach

\* C39 amended: the same for every trail percent large enough for
\* 1 - trail_percent/100 to be a float below 1.0 (any percent above 5.6e-15);
\* for a smaller one the raised level equals the PNL and that same call takes
\* the stoploss branch.
C39_RatchetBelowPnl ==
    (ValidTrailing /\ RatchetRaised)
        => IF RoundsToOne(cfg.TRAILING_STOPLOSS_TRAIL_PERCENT)
           THEN /\ daily_stoploss = pnl
                /\ outcome[1] = "STOPLOSS_BREACHED"
                /\ Calls(trace, "square_off_all_positions") = 1
           ELSE BelowPnlAndNoBreach

\* C39 witness: a trail of 10% and a PNL of 1200 raised the level to 1080,
\* and the call returned WITHIN_LIMITS.
C39_Witness ==
    /\ ValidTrailing
    /\ ~RoundsToOne(cfg.TRAILING_STOPLOSS_TRAIL_PERCENT)
    /\ RatchetRaised
    /\ pnl = R(1200) /\ daily_stoploss = R(1080)
    /\ outcome[1] = "WITHIN_LIMITS"

----------------------------------------------------------------------------
(* main() left running with the kill switch enabled: the loop of lines     *)
(* 1108-1110 never ends by itself.                                         *)

KillSwitchConfigs == { c \in AccountConfigs : c.ENABLE_KILL_SWITCH }

FairInit == Init /\ cfg \in KillSwitchConfigs

\* main() without Ctrl+C; these configurations schedule no periodic update
FairNext ==
    \/ MainStart
    \/ InitialCheck
    \/ ScheduleJobs
    \/ RunPending
    \/ Sleep
    \/ MonitorRiskJob

\* main() runs on to its loop, and while True (line 1108) keeps calling
\* run_pending and sleeping.  What the broker answers to the handlers is not
\* the program's to promise.
FairSpec ==
    /\ FairInit /\ [][FairNext]_vars
    /\ WF_vars(MainStart) /\ WF_vars(InitialCheck) /\ WF_vars(ScheduleJobs)
    /\ WF_vars(RunPending) /\ WF_vars(Sleep)

----------------------------------------------------------------------------
(* The retry loop *)

MarketOpen == is_market_hours(cfg, now)

\* a snapshot a check fetched is in breach
SnapshotInBreach == Evaluated => (StoplossHit \/ TargetHit)

\* a check set kill_switch_triggered and returned a breach status
BreachReturned ==
    /\ op = "monitor_risk"
    /\ kill_switch_triggered
    /\ outcome[1] \in BreachStatuses

\* a scheduled check whose requests the broker answers: the snapshot is
\* fetched (line 631), and the kill-switch call, if the check makes it,
\* returns success (lines 594-606)
AnsweredTick ==
    /\ MonitorRiskJob
    /\ Evaluated'
    /\ \A i \in TriggerReturns(trace') : trace'[i][3]

\* run_pending is about to call monitor_risk, inside market hours and on an
\* engine that has not triggered: the states in which an answered tick can
\* be taken
TickDue ==
    /\ pc = "run_pending"
    /\ batch # <<>> /\ Head(batch) = "monitor_risk"
    /\ MarketOpen
    /\ ~Engine.kill_switch_triggered

\* the step just taken was an answered tick
TickAnswered ==
    /\ pc = "run_pending" /\ op = "monitor_risk"
    /\ Evaluated
    /\ \A i \in TriggerReturns(trace) : trace[i][3]

\* ticks are scheduled fairly and the broker's answers eventually succeed: if
\* ticks keep coming due, answered ticks keep being taken
TicksAnsweredFairly == <>[]~TickDue \/ []<>TickAnswered

\* C32: with the kill switch enabled and the loop running, if from some point
\* on the market is open and every snapshot fetched is in breach (PNL <=
\* daily_stoploss or PNL >= daily_target), and ticks that come due again and
\* again are again and again answered (the snapshot fetched, the kill-switch
\* call successful), then eventually a check sets kill_switch_triggered and
\* returns STOPLOSS_BREACHED or TARGET_ACHIEVED.  TickDue is exactly where an
\* answered tick is possible.
C32_RetryUntilTriggered ==
    /\ [](TickDue <=> ENABLED AnsweredTick)
    /\ (<>[]MarketOpen /\ <>[]SnapshotInBreach /\ TicksAnsweredFairly) => <>BreachReturned

\* C32 witness: a scheduled check whose kill switch failed was followed by a
\* scheduled check, again in breach, that activated it.
C32_Witness ==
    /\ cfg.ENABLE_KILL_SWITCH
    /\ pc = "run_pending"
    /\ last_failed
    /\ BreachReturned
    /\ ~kst_before
    /\ \E i \in TriggerReturns(trace) : trace[i][3]
    /\ jobs = {}

====
